---- MODULE Spec2Model ----
(***************************************************************************)
(* Model of matchdb-shell-services: the auth controller (registration,     *)
(* login, refresh rotation, logout, account deletion), the payments        *)
(* controller (Stripe webhook reconciliation) and the membership           *)
(* visibility aggregator computeMembershipConfig.                          *)
(*                                                                         *)
(* Every `await` on the store is one atomic step of a request; the steps   *)
(* of different requests interleave freely (single-threaded event loop,    *)
(* suspension at every store access).                                      *)
(***************************************************************************)
EXTENDS Integers, Sequences, FiniteSets, TLC

VARIABLES
  users,          \* User table: set of rows
  subscriptions,  \* Subscription table: set of rows
  refreshTokens,  \* RefreshToken table: set of rows
  payments,       \* CandidatePayment table: sequence of rows in insertion order
  now,            \* wall clock (Date.now()), in abstract ticks
  jwtRefreshTTL,  \* env.JWT_REFRESH_EXPIRES, in ticks
  nextId,         \* source of crypto.randomUUID() / autogenerated row ids
  reqs,           \* requests in flight, in start order, with their local state
  responses,      \* history: the completed requests with what they answered
  started,        \* history: number of requests started
  aggIn,          \* aggregator harness: the payment rows handed to computeMembershipConfig
  aggOut          \* aggregator harness: what the call produced

vars == <<users, subscriptions, refreshTokens, payments, now, jwtRefreshTTL,
          nextId, reqs, responses, started, aggIn, aggOut>>

storeVars == <<users, subscriptions, refreshTokens, payments>>
aggVars == <<aggIn, aggOut>>

-----------------------------------------------------------------------------
(* Bounds *)

MaxReq == 3        \* requests started in one behaviour
MaxTime == 2       \* clock ticks
DbTokenTTL == 1    \* the 7 days of storeRefreshToken, in ticks
AccessTTL == 1     \* env.JWT_ACCESS_EXPIRES, in ticks
MaxHooks == 2      \* webhook deliveries in one behaviour

-----------------------------------------------------------------------------
(* Tokens (services/jwt.service) *)

NoToken == [typ |-> "none", userId |-> 0, tokenId |-> 0, exp |-> 0]
Garbage == [typ |-> "garbage", userId |-> 0, tokenId |-> 0, exp |-> 0]

signAccessToken(uid, t) ==
  [typ |-> "access", userId |-> uid, tokenId |-> 0, exp |-> t + AccessTTL]

signRefreshToken(uid, tid, t) ==
  [typ |-> "refresh", userId |-> uid, tokenId |-> tid, exp |-> t + jwtRefreshTTL]

\* jwt.verify(token, JWT_REFRESH_SECRET): TRUE when it returns the payload,
\* FALSE when it throws (other key, malformed, expired).
verifyRefreshToken(tok, t) == tok.typ = "refresh" /\ t < tok.exp

verifyAccessToken_AnyKey(tok, t) == tok.typ \in {"access", "refresh"} /\ t < tok.exp

\* jwt.verify(token, JWT_SECRET), the other of the two configured secrets
verifyAccessToken(tok, t) == tok.typ = "access" /\ t < tok.exp

-----------------------------------------------------------------------------
(* Store helpers (prisma) *)

NoUser == 0
NoRow == 0

UserById(uid) == {u \in users : u.id = uid}
UserByEmail(e) == {u \in users : u.email = e}
TokenRowsByToken(tok) == {r \in refreshTokens : r.token = tok}
TokenRowsById(id) == {r \in refreshTokens : r.id = id}

\* seed.ts: users with a password, active, each with a subscription
SeedUsers ==
  { [id |-> 1, email |-> "alice", password |-> "pw", googleId |-> "none",
     userType |-> "candidate", isActive |-> TRUE,
     hasPurchasedVisibility |-> FALSE, membershipConfig |-> "null",
     username |-> "none"],
    [id |-> 2, email |-> "dan", password |-> "pw", googleId |-> "none",
     userType |-> "vendor", isActive |-> TRUE,
     hasPurchasedVisibility |-> FALSE, membershipConfig |-> "null",
     username |-> "none"] }

SeedSubscriptions ==
  { [userId |-> 1, plan |-> "pro", status |-> "active", stripeCustomerId |-> "none",
     stripeSubId |-> "none", stripePriceId |-> "none", currentPeriodEnd |-> 0],
    [userId |-> 2, plan |-> "free", status |-> "inactive", stripeCustomerId |-> "none",
     stripeSubId |-> "none", stripePriceId |-> "none", currentPeriodEnd |-> 0] }

Emails == {"alice", "zoe"}
Passwords == {"pw", "wrong"}

\* clean: lower case, every character outside a-z0-9 removed
clean(name) ==
  CASE name = "Alice" -> "alice"
    [] name = "Johnson" -> "johnson"
    [] name = "O'Neil" -> "oneil"
    [] OTHER -> ""

\* the first six characters of the id without its dashes; the ids of the
\* model are short numbers without dashes
IdSuffix(id) == ToString(id)

generateUsername(firstName, lastName, id) ==
  LET first == clean(firstName)
      last == clean(lastName)
      suffix == IdSuffix(id)
  IN IF first # "" /\ last # "" THEN first \o "-" \o last \o "-" \o suffix
     ELSE IF first # "" \/ last # ""
       THEN (IF first # "" THEN first ELSE last) \o "-" \o suffix
     ELSE "user-" \o suffix

-----------------------------------------------------------------------------
(* Requests *)

NewReq(op) ==
  [op |-> op, pc |-> "start", status |-> 0,
   token |-> NoToken,       \* refresh token in the body
   bearer |-> NoToken,      \* access token in the Authorization header
   email |-> "none", password |-> "none",
   googleId |-> "none",     \* profile.id of the OAuth callback
   storedId |-> NoRow,      \* refreshToken: stored.id
   uid |-> NoUser,          \* the user row the handler holds
   access |-> NoToken,      \* tokens returned to the caller
   refresh |-> NoToken,
   userType |-> "none",
   late |-> FALSE,          \* history: the token had been rotated when presented
   taken |-> FALSE,         \* history: the email had a User row when looked up
   state |-> "",            \* OAuth callback: req.query.state
   givenName |-> "", familyName |-> "",
   error |-> "",            \* the error the request was answered with
   byGoogle |-> FALSE,      \* history: the lookup by googleId found an account
   byEmail |-> FALSE,       \* history: the lookup by email found an account
   inactive |-> FALSE,      \* history: the account matched by email was inactive
   branch |-> "none",       \* history: the resolution the callback came to
   seq |-> 0,               \* history: logout: the requests started before it
   notified |-> FALSE,      \* history: the handler dispatched a notification
   sendOk |-> TRUE,         \* history: the promise of that send resolved
   badAtLookup |-> FALSE]   \* history: the lookup found it absent/revoked/expired

ReqIds == 1..Len(reqs)

Done(r, st) == [r EXCEPT !.pc = "done", !.status = st]

Remove(seq, i) == SubSeq(seq, 1, i - 1) \o SubSeq(seq, i + 1, Len(seq))

\* sgMail.send of a dispatched notification resolves or rejects
SendResults == BOOLEAN

AfterSend_Propagated(status, ok) == IF ok THEN status ELSE 500

\* send(...).catch(console.error): the send is not awaited and a rejection is
\* logged; the answer of the handler stands
AfterSend(status, ok) == status

\* a request arrives and suspends at its first await
Begin(r) ==
  /\ reqs' = Append(reqs, r)
  /\ started' = started + 1
  /\ UNCHANGED responses

\* a request arrives and is answered before any suspension
Reply(r) ==
  /\ responses' = responses \cup {r}
  /\ started' = started + 1
  /\ UNCHANGED reqs

\* request i resumes and suspends again
Step(i, r) ==
  /\ reqs' = [reqs EXCEPT ![i] = r]
  /\ UNCHANGED <<responses, started>>

\* request i resumes and is answered
Finish(i, r) ==
  /\ reqs' = Remove(reqs, i)
  /\ responses' = responses \cup {r}
  /\ UNCHANGED started

\* the requests that issue a token pair
IssuingOps == {"register", "login", "oauth", "refresh"}
IssuingResponses == {x \in responses : x.op \in IssuingOps}

\* refresh/access tokens that some response has handed to a client
ClientRefreshTokens == {r.refresh : r \in {x \in IssuingResponses : x.refresh # NoToken}}
ClientAccessTokens == {r.access : r \in {x \in IssuingResponses : x.access # NoToken}}

\* history: a /refresh presenting tok has completed successfully
Rotated(tok) ==
  \E x \in responses : x.op = "refresh" /\ x.token = tok /\ x.status = 200

CanStart == started < MaxReq
CanDeliver == started < MaxHooks

-----------------------------------------------------------------------------
(* storeRefreshToken: prisma.refreshToken.create; the row references the    *)
(* user, so the insert fails when the user row is gone.                     *)

storeRefreshTokenOk(uid) == UserById(uid) # {}

storeRefreshToken_Skipped(uid, tok) == refreshTokens

storeRefreshToken_SeedOwner(uid, tok) ==
  refreshTokens \cup
    {[id |-> nextId, token |-> tok, userId |-> 2,
      expiresAt |-> now + DbTokenTTL, revoked |-> FALSE]}

storeRefreshToken(uid, tok) ==
  refreshTokens \cup
    {[id |-> nextId, token |-> tok, userId |-> uid,
      expiresAt |-> now + DbTokenTTL, revoked |-> FALSE]}

-----------------------------------------------------------------------------
(* POST /login *)

CredentialsRefused_AnyPassword(found, pw) ==
  \/ found = {} \/ \E u \in found : ~u.isActive
  \/ \E u \in found : u.password = "none"

\* the three guards of login, each answered 401: !user || !user.isActive,
\* !user.password, !(await bcrypt.compare(body.password, user.password))
CredentialsRefused(found, pw) ==
  \/ found = {} \/ \E u \in found : ~u.isActive
  \/ \E u \in found : u.password = "none"
  \/ \E u \in found : u.password # pw

LoginStart(e, pw) ==
  /\ CanStart
  /\ LET r == [NewReq("login") EXCEPT !.email = e, !.password = pw]
         found == UserByEmail(e)
     IN IF CredentialsRefused(found, pw)
          THEN Reply(Done(r, 401))
        ELSE Begin([r EXCEPT !.pc = "store", !.uid = (CHOOSE u \in found : TRUE).id])
  /\ UNCHANGED <<storeVars, now, jwtRefreshTTL, nextId, aggVars>>

LoginStore(i) ==
  /\ reqs[i].op = "login" /\ reqs[i].pc = "store"
  /\ LET r == reqs[i]
         acc == signAccessToken(r.uid, now)
         ref == signRefreshToken(r.uid, nextId, now)
     IN IF storeRefreshTokenOk(r.uid)
          THEN /\ refreshTokens' = storeRefreshToken(r.uid, ref)
               /\ Finish(i, [Done(r, 200) EXCEPT !.access = acc, !.refresh = ref])
               /\ nextId' = nextId + 1
          ELSE /\ Finish(i, Done(r, 500))
               /\ UNCHANGED <<refreshTokens, nextId>>
  /\ UNCHANGED <<users, subscriptions, payments, now, jwtRefreshTTL, aggVars>>

-----------------------------------------------------------------------------
(* POST /register *)

EmailTaken_NoUniqueIndex(rows, e) == FALSE

\* the unique index on User.email: the create fails with P2002
EmailTaken(rows, e) == \E u \in rows : u.email = e

RegisterStart(e, ut) ==
  /\ CanStart
  /\ LET r == [NewReq("register") EXCEPT !.email = e, !.password = "pw",
                                         !.taken = (UserByEmail(e) # {})]
     IN IF UserByEmail(e) # {}
          THEN Reply(Done(r, 409))
          ELSE Begin([r EXCEPT !.pc = "create", !.userType = ut])
  /\ UNCHANGED <<storeVars, now, jwtRefreshTTL, nextId, aggVars>>

\* prisma.user.create with the nested subscription; email is a unique column
RegisterCreate(i) ==
  /\ reqs[i].op = "register" /\ reqs[i].pc = "create"
  /\ LET r == reqs[i]
     IN IF EmailTaken(users, r.email)
          THEN /\ Finish(i, Done(r, 500))
               /\ UNCHANGED <<users, subscriptions, nextId>>
          ELSE /\ users' = users \cup
                    {[id |-> nextId, email |-> r.email, password |-> r.password,
                      googleId |-> "none", userType |-> r.userType, isActive |-> TRUE,
                      hasPurchasedVisibility |-> FALSE, membershipConfig |-> "null",
                      username |-> generateUsername(r.givenName, r.familyName, nextId)]}
               /\ subscriptions' = subscriptions \cup
                    {[userId |-> nextId, plan |-> "free", status |-> "active",
                      stripeCustomerId |-> "none", stripeSubId |-> "none",
                      stripePriceId |-> "none", currentPeriodEnd |-> 0]}
               /\ Step(i, [r EXCEPT !.pc = "store", !.uid = nextId])
               /\ nextId' = nextId + 1
  /\ UNCHANGED <<refreshTokens, payments, now, jwtRefreshTTL, aggVars>>

\* makeTokens, storeRefreshToken, the dispatch of sendWelcomeEmail (whose
\* promise settles as ok says) and the answer
RegisterStore(i, ok) ==
  /\ reqs[i].op = "register" /\ reqs[i].pc = "store"
  /\ LET r == reqs[i]
         acc == signAccessToken(r.uid, now)
         ref == signRefreshToken(r.uid, nextId, now)
     IN IF storeRefreshTokenOk(r.uid)
          THEN /\ refreshTokens' = storeRefreshToken(r.uid, ref)
               /\ Finish(i, [Done(r, AfterSend(201, ok))
                              EXCEPT !.access = acc, !.refresh = ref,
                                     !.notified = TRUE, !.sendOk = ok])
               /\ nextId' = nextId + 1
          ELSE /\ Finish(i, Done(r, 500))
               /\ UNCHANGED <<refreshTokens, nextId>>
  /\ UNCHANGED <<users, subscriptions, payments, now, jwtRefreshTTL, aggVars>>

-----------------------------------------------------------------------------
(* GET /google/callback: the GoogleStrategy verify callback of             *)
(* config/passport, then the token issuance of googleCallback              *)

UserByGoogleId(g) == {u \in users : u.googleId = g}

\* the identity provider's profiles: external id, email and names
GoogleProfiles ==
  { [id |-> "g1", email |-> "alice", givenName |-> "Alice", familyName |-> "Johnson"],
    [id |-> "g2", email |-> "zoe", givenName |-> "", familyName |-> "O'Neil"] }

\* the state parameter of the callback: googleAuth sends "<role>:<nonce>";
\* the provider may also hand back none
StateParams == {"vendor:n1", "candidate:n1", ""}

\* stateParam.startsWith("vendor") ? "vendor" : "candidate"
UserTypeOfState(state) == IF state = "vendor:n1" THEN "vendor" ELSE "candidate"

FoundByGoogleId_Skipped(profile) == {}

\* 1. returning Google user: findUnique({ where: { googleId } })
FoundByGoogleId(profile) == UserByGoogleId(profile.id)

OAuthStart(profile, state) ==
  /\ CanStart
  /\ LET r == [NewReq("oauth") EXCEPT !.email = profile.email, !.googleId = profile.id,
                                      !.givenName = profile.givenName,
                                      !.familyName = profile.familyName,
                                      !.state = state,
                                      !.byGoogle = (\E u \in users : u.googleId = profile.id)]
         found == FoundByGoogleId(profile)
     IN IF found # {}
          THEN Begin([r EXCEPT !.pc = "store", !.branch = "returning",
                               !.uid = (CHOOSE u \in found : TRUE).id])
          ELSE Begin([r EXCEPT !.pc = "byEmail"])
  /\ UNCHANGED <<storeVars, now, jwtRefreshTTL, nextId, aggVars>>

FoundByEmail_Skipped(email) == {}

\* 2. existing email/password user: findUnique({ where: { email } })
FoundByEmail(email) == UserByEmail(email)

AccountDeactivated_Unchecked(found) == FALSE

\* if (!existingByEmail.isActive) return done(new Error("Account is deactivated."))
AccountDeactivated(found) == \E u \in found : ~u.isActive

OAuthByEmail(i) ==
  /\ reqs[i].op = "oauth" /\ reqs[i].pc = "byEmail"
  /\ LET r == [reqs[i] EXCEPT !.byEmail = (\E u \in users : u.email = reqs[i].email),
                              !.inactive = (\E u \in users : u.email = reqs[i].email
                                                              /\ ~u.isActive)]
         found == FoundByEmail(r.email)
     IN IF found = {}
          THEN Step(i, [r EXCEPT !.pc = "create", !.branch = "created"])
        ELSE IF AccountDeactivated(found)
          THEN Finish(i, [Done(r, 302) EXCEPT !.branch = "linked",
                                              !.error = "Account is deactivated."])
        ELSE Step(i, [r EXCEPT !.pc = "link", !.branch = "linked",
                               !.uid = (CHOOSE u \in found : TRUE).id])
  /\ UNCHANGED <<storeVars, now, jwtRefreshTTL, nextId, aggVars>>

\* prisma.user.update({ where: { id }, data: { googleId } }); googleId is unique
OAuthLink(i) ==
  /\ reqs[i].op = "oauth" /\ reqs[i].pc = "link"
  /\ LET r == reqs[i]
     IN IF UserById(r.uid) = {} \/ \E u \in UserByGoogleId(r.googleId) : u.id # r.uid
          THEN /\ Finish(i, [Done(r, 302) EXCEPT !.error = "store error"])
               /\ UNCHANGED users
          ELSE /\ users' = {IF u.id = r.uid THEN [u EXCEPT !.googleId = r.googleId] ELSE u
                             : u \in users}
               /\ Step(i, [r EXCEPT !.pc = "store"])
  /\ UNCHANGED <<subscriptions, refreshTokens, payments, now, jwtRefreshTTL, nextId, aggVars>>

\* 3. new user via Google OAuth: prisma.user.create, no password, with the
\* nested free subscription
OAuthCreate(i) ==
  /\ reqs[i].op = "oauth" /\ reqs[i].pc = "create"
  /\ LET r == reqs[i]
     IN IF EmailTaken(users, r.email) \/ UserByGoogleId(r.googleId) # {}
          THEN /\ Finish(i, [Done(r, 302) EXCEPT !.error = "store error"])
               /\ UNCHANGED <<users, subscriptions, nextId>>
          ELSE /\ users' = users \cup
                    {[id |-> nextId, email |-> r.email, password |-> "none",
                      googleId |-> r.googleId, userType |-> UserTypeOfState(r.state),
                      isActive |-> TRUE,
                      hasPurchasedVisibility |-> FALSE, membershipConfig |-> "null",
                      username |-> generateUsername(r.givenName, r.familyName, nextId)]}
               /\ subscriptions' = subscriptions \cup
                    {[userId |-> nextId, plan |-> "free", status |-> "active",
                      stripeCustomerId |-> "none", stripeSubId |-> "none",
                      stripePriceId |-> "none", currentPeriodEnd |-> 0]}
               /\ Step(i, [r EXCEPT !.pc = "store", !.uid = nextId])
               /\ nextId' = nextId + 1
  /\ UNCHANGED <<refreshTokens, payments, now, jwtRefreshTTL, aggVars>>

\* googleCallback: makeTokens, storeRefreshToken, redirect with the tokens
\* (every answer of the flow is a 302 redirect; a failure carries no token)
OAuthStore(i) ==
  /\ reqs[i].op = "oauth" /\ reqs[i].pc = "store"
  /\ LET r == reqs[i]
         acc == signAccessToken(r.uid, now)
         ref == signRefreshToken(r.uid, nextId, now)
     IN IF storeRefreshTokenOk(r.uid)
          THEN /\ refreshTokens' = storeRefreshToken(r.uid, ref)
               /\ Finish(i, [Done(r, 302) EXCEPT !.access = acc, !.refresh = ref])
               /\ nextId' = nextId + 1
          ELSE /\ Finish(i, [Done(r, 302) EXCEPT !.error = "token_error"])
               /\ UNCHANGED <<refreshTokens, nextId>>
  /\ UNCHANGED <<users, subscriptions, payments, now, jwtRefreshTTL, aggVars>>

-----------------------------------------------------------------------------
(* POST /refresh *)

\* history: the state of a presented token, read off the store
TokenAbsent(tok) == \A s \in refreshTokens : s.token # tok
TokenRevoked(tok) == \E s \in refreshTokens : s.token = tok /\ s.revoked
TokenExpired(tok) == \E s \in refreshTokens : s.token = tok /\ s.expiresAt < now
TokenUnusable(tok) == TokenAbsent(tok) \/ TokenRevoked(tok) \/ TokenExpired(tok)

RefreshInvalid_NoRevokedCheck(rows, t) ==
  rows = {} \/ \E s \in rows : s.expiresAt < t

\* the guard of refreshToken after the lookup: TRUE when the request is refused
RefreshInvalid(rows, t) ==
  rows = {} \/ \E s \in rows : s.revoked \/ s.expiresAt < t

RevokeById_Forgotten(rows, id) == rows

RevokeById_Deleting(rows, id) == {s \in rows : s.id # id}

\* prisma.refreshToken.update({ where: { id }, data: { revoked: true } })
RevokeById(rows, id) ==
  {IF s.id = id THEN [s EXCEPT !.revoked = TRUE] ELSE s : s \in rows}

\* verifyRefreshToken, findUnique({ where: { token } }) and the guard
RefreshStart(tok) ==
  /\ CanStart
  /\ LET r == [NewReq("refresh") EXCEPT !.token = tok,
                                        !.late = Rotated(tok),
                                        !.badAtLookup = TokenUnusable(tok)]
         rows == TokenRowsByToken(tok)
     IN IF ~verifyRefreshToken(tok, now)
          THEN Reply(Done(r, 401))
        ELSE IF RefreshInvalid(rows, now)
          THEN Reply(Done(r, 401))
        ELSE Begin([r EXCEPT !.pc = "revoke", !.storedId = (CHOOSE s \in rows : TRUE).id])
  /\ UNCHANGED <<storeVars, now, jwtRefreshTTL, nextId, aggVars>>

\* the update throws when the row is gone (cascade of an account deletion)
RefreshRevoke(i) ==
  /\ reqs[i].op = "refresh" /\ reqs[i].pc = "revoke"
  /\ LET r == reqs[i]
     IN IF TokenRowsById(r.storedId) = {}
          THEN /\ Finish(i, Done(r, 401))
               /\ UNCHANGED refreshTokens
          ELSE /\ refreshTokens' = RevokeById(refreshTokens, r.storedId)
               /\ Step(i, [r EXCEPT !.pc = "findUser"])
  /\ UNCHANGED <<users, subscriptions, payments, now, jwtRefreshTTL, nextId, aggVars>>

UserUnusable_MissingOnly(found) == found = {}

\* !user || !user.isActive
UserUnusable(found) == found = {} \/ \E u \in found : ~u.isActive

\* prisma.user.findUnique({ where: { id: payload.userId } })
RefreshFindUser(i) ==
  /\ reqs[i].op = "refresh" /\ reqs[i].pc = "findUser"
  /\ LET r == reqs[i]
         found == UserById(r.token.userId)
     IN IF UserUnusable(found)
          THEN Finish(i, Done(r, 401))
          ELSE Step(i, [r EXCEPT !.pc = "store", !.uid = r.token.userId])
  /\ UNCHANGED <<storeVars, now, jwtRefreshTTL, nextId, aggVars>>

RefreshStore(i) ==
  /\ reqs[i].op = "refresh" /\ reqs[i].pc = "store"
  /\ LET r == reqs[i]
         acc == signAccessToken(r.uid, now)
         ref == signRefreshToken(r.uid, nextId, now)
     IN IF storeRefreshTokenOk(r.uid)
          THEN /\ refreshTokens' = storeRefreshToken(r.uid, ref)
               /\ Finish(i, [Done(r, 200) EXCEPT !.access = acc, !.refresh = ref])
               /\ nextId' = nextId + 1
          ELSE /\ Finish(i, Done(r, 401))
               /\ UNCHANGED <<refreshTokens, nextId>>
  /\ UNCHANGED <<users, subscriptions, payments, now, jwtRefreshTTL, aggVars>>

-----------------------------------------------------------------------------
(* POST /logout and DELETE /account, both behind requireAuth *)

RevokeByToken_Forgotten(rows, tok) == rows

\* prisma.refreshToken.updateMany({ where: { token, revoked: false }, ... })
RevokeByToken(rows, tok) ==
  {IF s.token = tok /\ ~s.revoked THEN [s EXCEPT !.revoked = TRUE] ELSE s : s \in rows}

Logout(bearer, tok) ==
  /\ CanStart
  /\ LET r == [NewReq("logout") EXCEPT !.bearer = bearer, !.token = tok, !.seq = started]
     IN IF ~verifyAccessToken(bearer, now)
          THEN /\ Reply(Done(r, 401))
               /\ UNCHANGED refreshTokens
          ELSE /\ refreshTokens' = IF tok # NoToken THEN RevokeByToken(refreshTokens, tok)
                                                    ELSE refreshTokens
               /\ Reply(Done(r, 200))
  /\ UNCHANGED <<users, subscriptions, payments, now, jwtRefreshTTL, nextId, aggVars>>

RowsOfOthers_Kept(rows, uid) == rows

\* the rows that survive the cascade of prisma.user.delete({ where: { id: uid } })
RowsOfOthers(rows, uid) == {s \in rows : s.userId # uid}

\* prisma.user.delete: Subscription, RefreshToken and CandidatePayment rows cascade
DeleteAccount(bearer) ==
  /\ CanStart
  /\ LET r == [NewReq("delete") EXCEPT !.bearer = bearer]
         uid == bearer.userId
     IN IF ~verifyAccessToken(bearer, now)
          THEN /\ Reply(Done(r, 401))
               /\ UNCHANGED storeVars
        ELSE IF UserById(uid) = {}
          THEN /\ Reply(Done(r, 500))
               /\ UNCHANGED storeVars
        ELSE /\ users' = {u \in users : u.id # uid}
             /\ subscriptions' = RowsOfOthers(subscriptions, uid)
             /\ refreshTokens' = RowsOfOthers(refreshTokens, uid)
             /\ payments' = SelectSeq(payments, LAMBDA p : p.userId # uid)
             /\ Reply(Done(r, 200))
  /\ UNCHANGED <<now, jwtRefreshTTL, nextId, aggVars>>

Tick ==
  /\ now < MaxTime
  /\ now' = now + 1
  /\ UNCHANGED <<storeVars, jwtRefreshTTL, nextId, reqs, responses, started, aggVars>>

-----------------------------------------------------------------------------
(* The auth orchestrator *)

Init ==
  /\ users = SeedUsers
  /\ subscriptions = SeedSubscriptions
  /\ refreshTokens = {}
  /\ payments = <<>>
  /\ now = 0
  /\ jwtRefreshTTL \in {DbTokenTTL, DbTokenTTL + 2}
  /\ nextId = 10
  /\ reqs = <<>>
  /\ responses = {}
  /\ started = 0
  /\ aggIn = <<>>
  /\ aggOut = [runs |-> 0, threw |-> FALSE, config |-> <<>>, prev |-> "null", stored |-> "null"]

\* the Google accounts that sign in beside the token operations: alice's
\* (SpecOAuth and SpecDeactivated take every profile)
TokenProfiles == {p \in GoogleProfiles : p.id = "g1"}

Next ==
  \/ \E e \in Emails, pw \in Passwords : LoginStart(e, pw)
  \/ \E i \in ReqIds : LoginStore(i)
  \/ \E e \in Emails, ut \in {"candidate"} : RegisterStart(e, ut)
  \/ \E i \in ReqIds : RegisterCreate(i)
  \/ \E i \in ReqIds, ok \in {TRUE} : RegisterStore(i, ok)
  \/ \E p \in TokenProfiles, st \in {"vendor:n1"} : OAuthStart(p, st)
  \/ \E i \in ReqIds : OAuthByEmail(i)
  \/ \E i \in ReqIds : OAuthLink(i)
  \/ \E i \in ReqIds : OAuthCreate(i)
  \/ \E i \in ReqIds : OAuthStore(i)
  \/ \E tok \in ClientRefreshTokens \cup {Garbage} \cup ClientAccessTokens : RefreshStart(tok)
  \/ \E i \in ReqIds : RefreshRevoke(i)
  \/ \E i \in ReqIds : RefreshFindUser(i)
  \/ \E i \in ReqIds : RefreshStore(i)
  \/ \E b \in ClientAccessTokens \cup {Garbage}, tok \in ClientRefreshTokens \cup {NoToken} : Logout(b, tok)
  \/ \E b \in ClientAccessTokens : DeleteAccount(b)
  \/ Tick

Spec == Init /\ [][Next]_vars

\* the same service over a store in which alice's account has been
\* deactivated (isActive = false), before or after she linked her Google
\* account
InitDeactivated ==
  /\ \E g \in {"none", "g1"} :
       users = {IF u.id = 1 THEN [u EXCEPT !.isActive = FALSE, !.googleId = g] ELSE u
                  : u \in SeedUsers}
  /\ subscriptions = SeedSubscriptions
  /\ refreshTokens = {}
  /\ payments = <<>>
  /\ now = 0
  /\ jwtRefreshTTL = DbTokenTTL + 2
  /\ nextId = 10
  /\ reqs = <<>>
  /\ responses = {}
  /\ started = 0
  /\ aggIn = <<>>
  /\ aggOut = [runs |-> 0, threw |-> FALSE, config |-> <<>>, prev |-> "null", stored |-> "null"]

\* every operation of Next, the OAuth callback with every Google profile
NextDeactivated ==
  \/ Next
  \/ \E p \in GoogleProfiles, st \in {"vendor:n1"} : OAuthStart(p, st)

SpecDeactivated == InitDeactivated /\ [][NextDeactivated]_vars

\* registration and the OAuth callback with every state parameter
NextOAuth ==
  \/ \E p \in GoogleProfiles, st \in StateParams : OAuthStart(p, st)
  \/ \E i \in ReqIds : OAuthByEmail(i)
  \/ \E i \in ReqIds : OAuthLink(i)
  \/ \E i \in ReqIds : OAuthCreate(i)
  \/ \E i \in ReqIds : OAuthStore(i)
  \/ \E e \in Emails, ut \in {"candidate"} : RegisterStart(e, ut)
  \/ \E i \in ReqIds : RegisterCreate(i)
  \/ \E i \in ReqIds, ok \in {TRUE} : RegisterStore(i, ok)

SpecOAuth == Init /\ [][NextOAuth]_vars

-----------------------------------------------------------------------------
(* Properties of the refresh rotation *)

RefreshResponses == {x \in responses : x.op = "refresh"}

\* the refresh tokens issued by a /refresh that presented tok
Descendants(tok) ==
  {x.refresh : x \in {y \in RefreshResponses : y.token = tok /\ y.refresh # NoToken}}

\* C1: of the /refresh requests presenting one valid refresh token, also when
\* they run concurrently, at most one is answered 200 (the others get 401),
\* and at most one new RefreshToken row descends from the presented token.
C1_ConcurrentRefreshSingleWinner ==
  \A tok \in ClientRefreshTokens :
    /\ Cardinality({x \in RefreshResponses : x.token = tok /\ x.status = 200}) <= 1
    /\ Cardinality({s \in refreshTokens : s.token \in Descendants(tok)}) <= 1

\* C2: a /refresh presenting a token that an earlier, completed /refresh has
\* already rotated is answered 401 at its guard: it never gets past the
\* lookup, stores no row and returns no access or refresh token.
C2_RotatedTokenRefused ==
  /\ \A x \in RefreshResponses :
       x.late => x.status = 401 /\ x.refresh = NoToken /\ x.access = NoToken
  /\ \A i \in ReqIds : reqs[i].op = "refresh" => ~reqs[i].late

C2_Witness ==
  \E x \in RefreshResponses :
    x.late /\ x.status = 401 /\ x.token \in ClientRefreshTokens /\ Descendants(x.token) # {}

-----------------------------------------------------------------------------
(* JSON, as far as the payments controller uses it *)

\* JavaScript values: an array iterates over its items and has a length; a
\* plain object is not iterable and has the length property it was given
JsArray(items) == [kind |-> "array", items |-> items, length |-> Len(items)]
JsObject(len) == [kind |-> "object", items |-> <<>>, length |-> len]
SyntaxError == [kind |-> "SyntaxError", items |-> <<>>, length |-> -1]

\* the serialized subdomains fields a CandidatePayment row is given here
SubdomainTexts ==
  { "[]", "[\"c2c\"]", "[\"w2\"]", "not json", "{\"length\":2}" }

\* JSON.parse on those texts; SyntaxError stands for the thrown exception
JSONparse(text) ==
  CASE text = "[]" -> JsArray(<<>>)
    [] text = "[\"c2c\"]" -> JsArray(<<"c2c">>)
    [] text = "[\"w2\"]" -> JsArray(<<"w2">>)
    [] text = "{\"length\":2}" -> JsObject(2)
    [] OTHER -> SyntaxError

RECURSIVE JoinQuoted(_)
JoinQuoted(list) ==
  IF list = <<>> THEN ""
  ELSE "\"" \o Head(list) \o "\""
       \o (IF Len(list) > 1 THEN "," ELSE "") \o JoinQuoted(Tail(list))

RECURSIVE JoinEntries(_)
JoinEntries(config) ==
  IF config = <<>> THEN ""
  ELSE "\"" \o Head(config).key \o "\":[" \o JoinQuoted(Head(config).subs) \o "]"
       \o (IF Len(config) > 1 THEN "," ELSE "") \o JoinEntries(Tail(config))

\* JSON.stringify(newConfig): keys in insertion order, arrays in element order
JSONstringify(config) == "{" \o JoinEntries(config) \o "}"

-----------------------------------------------------------------------------
(* computeMembershipConfig *)

CONTRACT_SUBDOMAINS == <<"c2c", "c2h", "w2", "1099">>
FULLTIME_SUBDOMAINS == <<"c2h", "w2", "direct_hire", "salary">>

NULL == "<null>"
PackageTypes == {"base", "subdomain_addon", "single_domain_bundle", "full_bundle"}
Domains == {NULL, "contract", "full_time"}

PaymentRows ==
  [packageType : PackageTypes, domain : Domains, subdomains : SubdomainTexts]

\* a Record<string, string[]>: the entries in key insertion order
Includes(list, s) == \E k \in 1..Len(list) : list[k] = s
HasKey(config, key) == \E k \in 1..Len(config) : config[k].key = key
Get(config, key) == (CHOOSE k \in 1..Len(config) : config[k].key = key)

\* config[key] = list
Assign(config, key, list) ==
  IF HasKey(config, key)
    THEN [config EXCEPT ![Get(config, key)].subs = list]
    ELSE Append(config, [key |-> key, subs |-> list])

\* if (!config[key]) config[key] = []
EnsureKey(config, key) ==
  IF HasKey(config, key) THEN config ELSE Append(config, [key |-> key, subs |-> <<>>])

\* for (const s of items) if (!list.includes(s)) list.push(s)
RECURSIVE UnionMerge(_, _)
UnionMerge(list, items) ==
  IF items = <<>> THEN list
  ELSE UnionMerge(IF Includes(list, Head(items)) THEN list ELSE Append(list, Head(items)),
                  Tail(items))

MergeInto(config, key, items) ==
  LET c == EnsureKey(config, key)
  IN [c EXCEPT ![Get(c, key)].subs = UnionMerge(c[Get(c, key)].subs, items)]

Returned(config) == [threw |-> FALSE, config |-> config]
TypeError == [threw |-> TRUE, config |-> <<>>]

\* try { subs = JSON.parse(payment.subdomains) } catch { subs = [] }
ParseSubs(payment) ==
  LET v == JSONparse(payment.subdomains)
  IN IF v = SyntaxError THEN JsArray(<<>>) ELSE v

\* the full_bundle branch
FullBundle(config) ==
  Assign(Assign(config, "contract", CONTRACT_SUBDOMAINS),
         "full_time", FULLTIME_SUBDOMAINS)

\* one iteration of the loop over the payments
AggregateRow(config, payment) ==
  LET subs == ParseSubs(payment)
  IN IF payment.packageType = "full_bundle"
       THEN Returned(FullBundle(config))
     ELSE IF payment.packageType = "single_domain_bundle" /\ payment.domain # NULL
       THEN Returned(MergeInto(config, payment.domain,
                               IF payment.domain = "contract" THEN CONTRACT_SUBDOMAINS
                                                              ELSE FULLTIME_SUBDOMAINS))
     ELSE IF payment.domain = NULL
       THEN Returned(config)
     ELSE IF ~(subs.length > 0)
       THEN Returned(config)
     ELSE IF subs.kind # "array"
       THEN TypeError                              \* for..of on a non-iterable
     ELSE Returned(MergeInto(config, payment.domain, subs.items))

RECURSIVE AggregateFrom(_, _)
AggregateFrom(config, rows) ==
  IF rows = <<>> THEN Returned(config)
  ELSE LET step == AggregateRow(config, Head(rows))
       IN IF step.threw THEN TypeError ELSE AggregateFrom(step.config, Tail(rows))

computeMembershipConfig(rows) == AggregateFrom(<<>>, rows)

-----------------------------------------------------------------------------
(* The aggregation as the webhook runs it: findMany (no orderBy, so in any *)
(* order), computeMembershipConfig, JSON.stringify, user.update             *)

MaxRows == 2       \* completed payment rows of the user

Bijections(n) == {f \in [1..n -> 1..n] : \A a, b \in 1..n : f[a] = f[b] => a = b}
Orderings(seq) == {[k \in 1..Len(seq) |-> seq[f[k]]] : f \in Bijections(Len(seq))}

RowSeqs == UNION {[1..n -> PaymentRows] : n \in 0..MaxRows}

Recompute ==
  /\ aggOut.runs < 2
  /\ \E order \in Orderings(aggIn) :
       LET res == computeMembershipConfig(order)
       IN aggOut' = [runs |-> aggOut.runs + 1,
                     threw |-> res.threw,
                     config |-> res.config,
                     prev |-> aggOut.stored,
                     stored |-> IF res.threw THEN aggOut.stored
                                ELSE JSONstringify(res.config)]
  /\ UNCHANGED <<storeVars, now, jwtRefreshTTL, nextId, reqs, responses, started, aggIn>>

InitAgg ==
  /\ users = SeedUsers
  /\ subscriptions = SeedSubscriptions
  /\ refreshTokens = {}
  /\ payments = <<>>
  /\ now = 0
  /\ jwtRefreshTTL = DbTokenTTL
  /\ nextId = 10
  /\ reqs = <<>>
  /\ responses = {}
  /\ started = 0
  /\ aggIn \in RowSeqs
  /\ aggOut = [runs |-> 0, threw |-> FALSE, config |-> <<>>, prev |-> "null", stored |-> "null"]

NextAgg == Recompute

SpecAgg == InitAgg /\ [][NextAgg]_vars

-----------------------------------------------------------------------------
(* Properties of the aggregation *)

AsSet(list) == {list[k] : k \in 1..Len(list)}
Keys(config) == {config[k].key : k \in 1..Len(config)}
Visible(config, d) == IF HasKey(config, d) THEN AsSet(config[Get(config, d)].subs) ELSE {}

\* equal as mappings from domain to set of subdomains
SameMapping(c1, c2) ==
  /\ Keys(c1) = Keys(c2)
  /\ \A d \in Keys(c1) : Visible(c1, d) = Visible(c2, d)

Complete(d) == AsSet(IF d = "contract" THEN CONTRACT_SUBDOMAINS ELSE FULLTIME_SUBDOMAINS)

\* the subdomain list of a row; a field that is not a list of strings lists nothing
Malformed(row) == JSONparse(row.subdomains).kind # "array"
Listed(row) == IF Malformed(row) THEN {} ELSE AsSet(JSONparse(row.subdomains).items)

\* what a row adds to the visibility of domain d
Contribution(row, d) ==
  IF row.packageType = "full_bundle" THEN Complete(d)
  ELSE IF row.packageType = "single_domain_bundle" THEN (IF row.domain = d THEN Complete(d) ELSE {})
  ELSE IF row.domain = d THEN Listed(row)
  ELSE {}

UnionOfContributions(rows, d) == UNION {Contribution(rows[k], d) : k \in 1..Len(rows)}

\* C4: computeMembershipConfig returns the same mapping (same keys, same set
\* of subdomains per key) for every permutation of its input rows.
C4_OrderIndependent ==
  aggOut.runs > 0 =>
    \A order \in Orderings(aggIn) :
      LET other == computeMembershipConfig(order)
      IN other.threw = aggOut.threw /\ SameMapping(other.config, aggOut.config)

\* C5: the returned mapping is, per domain, the union of the contributions of
\* all rows: both complete sets for a full_bundle row, the domain's complete
\* set for a single_domain_bundle row, the listed subdomains for any other
\* row with a domain.
C5_UnionOfContributions ==
  (aggOut.runs > 0 /\ ~aggOut.threw) =>
    /\ Keys(aggOut.config) \subseteq {"contract", "full_time"}
    /\ \A d \in {"contract", "full_time"} :
         Visible(aggOut.config, d) = UnionOfContributions(aggIn, d)

\* C6: when the input contains a full_bundle row, the result holds every
\* subdomain of contract and every subdomain of full_time, whatever other
\* rows come before or after it.
C6_FullBundleFillsBothDomains ==
  (aggOut.runs > 0 /\ \E k \in 1..Len(aggIn) : aggIn[k].packageType = "full_bundle") =>
    /\ ~aggOut.threw
    /\ Complete("contract") \subseteq Visible(aggOut.config, "contract")
    /\ Complete("full_time") \subseteq Visible(aggOut.config, "full_time")

\* C7: for an input of base and subdomain_addon rows only, the result has a
\* key exactly for the domains named by a row with a non-empty subdomain
\* list, and maps it to the union of the lists of those rows.
C7_BaseAndAddonUnion ==
  (aggOut.runs > 0
     /\ \A k \in 1..Len(aggIn) : aggIn[k].packageType \in {"base", "subdomain_addon"}) =>
    /\ ~aggOut.threw
    /\ \A d \in {"contract", "full_time"} :
         LET listed == UNION {Listed(aggIn[k]) : k \in {j \in 1..Len(aggIn) : aggIn[j].domain = d}}
         IN /\ Visible(aggOut.config, d) = listed
            /\ d \in Keys(aggOut.config) <=> listed # {}

\* C8: a row whose serialized subdomains field is malformed never makes the
\* aggregation throw and contributes nothing, whatever its package type: the
\* result is the one the other rows give without it.
C8_MalformedRowIgnored ==
  aggOut.runs > 0 =>
    \A k \in 1..Len(aggIn) :
      Malformed(aggIn[k]) =>
        LET with == computeMembershipConfig(aggIn)
            without == computeMembershipConfig(Remove(aggIn, k))
        IN /\ ~with.threw
           /\ ~without.threw => SameMapping(with.config, without.config)

\* C9: a second aggregation over the same payment rows stores the same
\* serialized membershipConfig as the first, in whatever order the store
\* returned the rows each time.
C9_RerunByteIdentical ==
  aggOut.runs = 2 => aggOut.stored = aggOut.prev

-----------------------------------------------------------------------------
(* POST /webhook: stripeWebhook *)

\* JSON.stringify of a parsed subdomains value
JSONstringifyValue(v) ==
  IF v.kind = "array" THEN "[" \o JoinQuoted(v.items) \o "]" ELSE "{\"length\":2}"

\* the events the gateway delivers; it redelivers an event unchanged, so the
\* session id determines the content.  userId 0 / packageId "" stand for
\* metadata that lacks the field, domain "" for a session without a domain,
\* amount 0 for a session without amount_total.
CheckoutEvents ==
  { [type |-> "checkout.session.completed", session |-> "cs_1", amount |-> 1300, mode |-> "payment",
     userId |-> 1, packageId |-> "base", domain |-> "contract", subdomains |-> "[\"c2c\"]"],
    [type |-> "checkout.session.completed", session |-> "cs_2", amount |-> 500, mode |-> "payment",
     userId |-> 1, packageId |-> "subdomain_addon", domain |-> "contract", subdomains |-> "[\"w2\"]"],
    [type |-> "checkout.session.completed", session |-> "cs_3", amount |-> 2900, mode |-> "subscription",
     userId |-> 2, packageId |-> "", domain |-> "", subdomains |-> "[]"],
    [type |-> "checkout.session.completed", session |-> "cs_4", amount |-> 5900, mode |-> "payment",
     userId |-> 0, packageId |-> "full_bundle", domain |-> "", subdomains |-> "[]"],
    [type |-> "checkout.session.completed", session |-> "cs_5", amount |-> 1300, mode |-> "payment",
     userId |-> 1, packageId |-> "base", domain |-> "full_time", subdomains |-> "[\"c2c\"]"],
    [type |-> "checkout.session.completed", session |-> "cs_6", amount |-> 0, mode |-> "payment",
     userId |-> 1, packageId |-> "full_bundle", domain |-> "", subdomains |-> "[]"],
    [type |-> "checkout.session.completed", session |-> "cs_8", amount |-> 1300, mode |-> "payment",
     userId |-> 1, packageId |-> "", domain |-> "contract", subdomains |-> "[\"c2c\"]"] }

NewWebhook(ev) ==
  [op |-> "webhook", pc |-> "start", status |-> 0, event |-> ev,
   allPayments |-> <<>>,    \* the rows findMany returned
   sigOk |-> TRUE,          \* history: the delivery carried a valid signature
   count |-> 0,             \* updatedSub.count of the updateMany
   subUser |-> NoUser,      \* dbSub.userId of the findFirst
   notified |-> FALSE,      \* history: the handler dispatched a notification
   sendOk |-> TRUE,         \* history: the promise of that send resolved
   duplicate |-> FALSE]     \* history: the session id had a row when the verified event arrived

SignatureInvalid_Skipped(sigOk) == FALSE

\* stripe.webhooks.constructEvent throws on a bad signature
SignatureInvalid(sigOk) == ~sigOk

PaymentsOfSession(sid) == {k \in 1..Len(payments) : payments[k].stripeSessionId = sid}

SessionTaken_NoUniqueIndex(rows, sid) == FALSE

\* the unique index on stripeSessionId: the create fails with P2002
SessionTaken(rows, sid) == \E k \in 1..Len(rows) : rows[k].stripeSessionId = sid

PaymentRow_Pending(ev) ==
  [userId |-> ev.userId, stripeSessionId |-> ev.session, packageType |-> ev.packageId,
   domain |-> IF ev.domain = "" THEN NULL ELSE ev.domain,
   subdomains |-> LET v == JSONparse(ev.subdomains)
                  IN IF v = SyntaxError THEN "[]" ELSE JSONstringifyValue(v),
   amountCents |-> ev.amount,
   status |-> "pending"]

\* the data of prisma.candidatePayment.create
PaymentRow(ev) ==
  [userId |-> ev.userId, stripeSessionId |-> ev.session, packageType |-> ev.packageId,
   domain |-> IF ev.domain = "" THEN NULL ELSE ev.domain,
   subdomains |-> LET v == JSONparse(ev.subdomains)
                  IN IF v = SyntaxError THEN "[]" ELSE JSONstringifyValue(v),
   amountCents |-> ev.amount,
   status |-> "completed"]

SessionSkipped_Never(ev) == FALSE

\* session.mode !== "payment", or !userId || !packageId: the case breaks
SessionSkipped(ev) == ev.mode # "payment" \/ ev.userId = 0 \/ ev.packageId = ""

\* constructEvent, the switch, the metadata checks and the create
WebhookStart(ev, sigOk) ==
  /\ CanDeliver
  /\ LET r == [NewWebhook(ev) EXCEPT !.sigOk = sigOk,
                                     !.duplicate = (sigOk /\ PaymentsOfSession(ev.session) # {})]
     IN IF SignatureInvalid(sigOk)
          THEN Reply(Done(r, 400)) /\ UNCHANGED payments
        ELSE IF SessionSkipped(ev)
          THEN Reply(Done(r, 200)) /\ UNCHANGED payments
        ELSE IF SessionTaken(payments, ev.session)
          THEN Reply(Done(r, 200)) /\ UNCHANGED payments
        ELSE IF UserById(ev.userId) = {}
          THEN Reply(Done(r, 500)) /\ UNCHANGED payments
        ELSE /\ payments' = Append(payments, PaymentRow(ev))
             /\ Begin([r EXCEPT !.pc = "findMany"])
  /\ UNCHANGED <<users, subscriptions, refreshTokens, now, jwtRefreshTTL, nextId, aggVars>>

\* prisma.candidatePayment.findMany({ where: { userId, status: "completed" } })
WebhookFindMany(i) ==
  /\ reqs[i].op = "webhook" /\ reqs[i].pc = "findMany"
  /\ LET r == reqs[i]
         mine == SelectSeq(payments, LAMBDA p : p.userId = r.event.userId
                                                /\ p.status = "completed")
     IN \E order \in Orderings(mine) :
          Step(i, [r EXCEPT !.pc = "update", !.allPayments = order])
  /\ UNCHANGED <<storeVars, now, jwtRefreshTTL, nextId, aggVars>>

MarkPurchased_Toggled(u, config) ==
  [u EXCEPT !.membershipConfig = config,
            !.hasPurchasedVisibility = ~u.hasPurchasedVisibility]

\* data: { membershipConfig: JSON.stringify(newConfig), hasPurchasedVisibility: true }
MarkPurchased(u, config) ==
  [u EXCEPT !.membershipConfig = config, !.hasPurchasedVisibility = TRUE]

\* computeMembershipConfig and prisma.user.update
WebhookUpdate(i) ==
  /\ reqs[i].op = "webhook" /\ reqs[i].pc = "update"
  /\ LET r == reqs[i]
         newConfig == computeMembershipConfig(r.allPayments)
     IN IF newConfig.threw \/ UserById(r.event.userId) = {}
          THEN Finish(i, Done(r, 500)) /\ UNCHANGED users
          ELSE /\ users' = {IF u.id = r.event.userId
                              THEN MarkPurchased(u, JSONstringify(newConfig.config))
                              ELSE u : u \in users}
               /\ Finish(i, Done(r, 200))
  /\ UNCHANGED <<subscriptions, refreshTokens, payments, now, jwtRefreshTTL, nextId, aggVars>>

\* the customer.subscription.* events the gateway delivers
SubscriptionEvents ==
  { [type |-> "customer.subscription.created", customer |-> "cus_2",
     priceId |-> "price_pro", status |-> "active", subId |-> "sub_1", periodEnd |-> 5],
    [type |-> "customer.subscription.updated", customer |-> "cus_2",
     priceId |-> "price_gone", status |-> "past_due", subId |-> "sub_1", periodEnd |-> 6],
    [type |-> "customer.subscription.deleted", customer |-> "cus_2",
     priceId |-> "price_pro", status |-> "canceled", subId |-> "sub_1", periodEnd |-> 6],
    [type |-> "customer.subscription.created", customer |-> "cus_9",
     priceId |-> "price_basic", status |-> "active", subId |-> "sub_9", periodEnd |-> 5] }

PlanOfPrice_AlwaysPro(priceId) == "pro"

\* VENDOR_PLAN_DEFINITIONS.find by stripePriceId, mapped to the plan string
PlanOfPrice(priceId) ==
  CASE priceId = "price_basic" -> "basic"
    [] priceId = "price_pro" -> "pro"
    [] priceId = "price_pro_plus" -> "pro_plus"
    [] OTHER -> "free"

SubscriptionsOfCustomer(rows, cus) == {x \in rows : x.stripeCustomerId = cus}

\* prisma.subscription.updateMany({ where: { stripeCustomerId }, data }) of
\* the created/updated branch
ApplySubscription(rows, ev) ==
  {IF x.stripeCustomerId = ev.customer
     THEN [x EXCEPT !.plan = PlanOfPrice(ev.priceId), !.status = ev.status,
                    !.stripeSubId = ev.subId, !.stripePriceId = ev.priceId,
                    !.currentPeriodEnd = ev.periodEnd]
     ELSE x : x \in rows}

ResetSubscription_All(rows, ev) ==
  {[x EXCEPT !.plan = "free", !.status = "canceled", !.stripeSubId = "none",
             !.stripePriceId = "none", !.currentPeriodEnd = 0] : x \in rows}

\* the updateMany of the deleted branch
ResetSubscription(rows, ev) ==
  {IF x.stripeCustomerId = ev.customer
     THEN [x EXCEPT !.plan = "free", !.status = "canceled", !.stripeSubId = "none",
                    !.stripePriceId = "none", !.currentPeriodEnd = 0]
     ELSE x : x \in rows}

\* constructEvent, the switch and the updateMany of a subscription event
WebhookSubscription(ev, sigOk) ==
  /\ CanDeliver
  /\ LET r == [NewWebhook(ev) EXCEPT !.sigOk = sigOk]
         updatedSub == [r EXCEPT !.count = Cardinality(
                                   SubscriptionsOfCustomer(subscriptions, ev.customer))]
     IN IF SignatureInvalid(sigOk)
          THEN Reply(Done(r, 400)) /\ UNCHANGED subscriptions
        ELSE IF ev.type = "customer.subscription.deleted"
          THEN /\ subscriptions' = ResetSubscription(subscriptions, ev)
               /\ Reply(Done(r, 200))
        ELSE /\ subscriptions' = ApplySubscription(subscriptions, ev)
             /\ IF updatedSub.count > 0 /\ ev.type = "customer.subscription.created"
                  THEN Begin([updatedSub EXCEPT !.pc = "findFirst"])
                  ELSE Reply(Done(updatedSub, 200))
  /\ UNCHANGED <<users, refreshTokens, payments, now, jwtRefreshTTL, nextId, aggVars>>

\* prisma.subscription.findFirst({ where: { stripeCustomerId } })
WebhookFindFirst(i) ==
  /\ reqs[i].op = "webhook" /\ reqs[i].pc = "findFirst"
  /\ LET r == reqs[i]
         found == SubscriptionsOfCustomer(subscriptions, r.event.customer)
     IN IF found = {}
          THEN Finish(i, Done(r, 200))
          ELSE \E dbSub \in found :
                 Step(i, [r EXCEPT !.pc = "findUser", !.subUser = dbSub.userId])
  /\ UNCHANGED <<storeVars, now, jwtRefreshTTL, nextId, aggVars>>

\* prisma.user.findUnique({ where: { id: dbSub.userId } }) and the dispatch
\* of sendSubscriptionActivatedEmail, whose promise settles as ok says
WebhookFindUser(i, ok) ==
  /\ reqs[i].op = "webhook" /\ reqs[i].pc = "findUser"
  /\ LET r == reqs[i]
     IN IF UserById(r.subUser) = {}
          THEN Finish(i, Done(r, 200))
          ELSE Finish(i, [Done(r, AfterSend(200, ok))
                            EXCEPT !.notified = TRUE, !.sendOk = ok])
  /\ UNCHANGED <<storeVars, now, jwtRefreshTTL, nextId, aggVars>>

\* the seeded subscriptions after each user has been through a checkout:
\* createCheckout / createCandidateCheckout attach the gateway customer id
BilledSubscriptions ==
  {[x EXCEPT !.stripeCustomerId = IF x.userId = 1 THEN "cus_1" ELSE "cus_2"]
     : x \in SeedSubscriptions}

InitPay ==
  /\ users = SeedUsers
  /\ subscriptions = BilledSubscriptions
  /\ refreshTokens = {}
  /\ payments = <<>>
  /\ now = 0
  /\ jwtRefreshTTL = DbTokenTTL
  /\ nextId = 10
  /\ reqs = <<>>
  /\ responses = {}
  /\ started = 0
  /\ aggIn = <<>>
  /\ aggOut = [runs |-> 0, threw |-> FALSE, config |-> <<>>, prev |-> "null", stored |-> "null"]

NextPay ==
  \/ \E ev \in CheckoutEvents, sigOk \in BOOLEAN : WebhookStart(ev, sigOk)
  \/ \E i \in ReqIds : WebhookFindMany(i)
  \/ \E i \in ReqIds : WebhookUpdate(i)
  \/ \E ev \in SubscriptionEvents, sigOk \in BOOLEAN : WebhookSubscription(ev, sigOk)
  \/ \E i \in ReqIds : WebhookFindFirst(i)
  \/ \E i \in ReqIds, ok \in SendResults : WebhookFindUser(i, ok)

SpecPay == InitPay /\ [][NextPay]_vars

\* C10: a checkout.session.completed delivery whose session id already has a
\* CandidatePayment row is answered 200 and changes neither the
\* CandidatePayment table nor any User row, also while the first delivery is
\* still being processed; no session id ever has two rows.
C10_DuplicateDeliveryIsNoOp ==
  /\ [](\A ev \in CheckoutEvents : Cardinality(PaymentsOfSession(ev.session)) <= 1)
  /\ [][\A x \in responses' \ responses :
          (x.op = "webhook" /\ x.duplicate /\ started' = started + 1) =>
            /\ x.status = 200
            /\ payments' = payments
            /\ users' = users]_vars

\* the redelivery is answered while the first delivery is still in flight
C10_Witness ==
  \E x \in responses :
    /\ x.op = "webhook" /\ x.duplicate /\ x.status = 200
    /\ \E i \in ReqIds : /\ reqs[i].event.type = "checkout.session.completed"
                          /\ reqs[i].event.session = x.event.session

-----------------------------------------------------------------------------
(* Properties of the webhook reconciliation *)

\* the CandidatePayment rows the checkout events can insert
EventRows ==
  {PaymentRow(ev) : ev \in {e \in CheckoutEvents : e.mode = "payment" /\ e.userId # 0}}

\* every sequence without repetition over a set
SeqsOver(S) ==
  UNION {{f \in [1..n -> S] : \A a, b \in 1..n : f[a] = f[b] => a = b}
           : n \in 0..Cardinality(S)}

\* the mappings the webhook can serialize
KnownConfigs ==
  {computeMembershipConfig(rows).config : rows \in SeqsOver(EventRows)}

\* JSON.parse of a stored membershipConfig: the inverse of JSON.stringify on
\* the stored texts; a null column holds no mapping
ParseConfig(text) ==
  IF text = "null" THEN <<>>
  ELSE CHOOSE c \in KnownConfigs : JSONstringify(c) = text

\* the (domain, subdomain) pairs of a mapping
Pairs(config) == UNION {{<<d, x>> : x \in Visible(config, d)} : d \in Keys(config)}

CompletedRowsOf(uid) ==
  SelectSeq(payments, LAMBDA p : p.userId = uid /\ p.status = "completed")

HandlersInFlight == {i \in ReqIds : reqs[i].op = "webhook"}

\* C11: whenever no webhook handler is in flight, the membershipConfig stored
\* for a user with completed CandidatePayment rows is the aggregation of all
\* of those rows (in some order of the rows), however the deliveries of the
\* user's sessions were interleaved or repeated.
C11_StoredConfigIsFullAggregation ==
  HandlersInFlight = {} =>
    \A u \in users :
      CompletedRowsOf(u.id) # <<>> =>
        \E order \in Orderings(CompletedRowsOf(u.id)) :
          LET all == computeMembershipConfig(order)
          IN ~all.threw /\ SameMapping(ParseConfig(u.membershipConfig), all.config)

-----------------------------------------------------------------------------
(* Redelivery: the gateway delivers an event again until it is answered    *)
(* 200; an awaited store call of a handler may reject, and the outer catch *)
(* of stripeWebhook then answers 500                                       *)

WebhookStoreError(i) ==
  /\ reqs[i].op = "webhook" /\ reqs[i].pc \in {"findMany", "update"}
  /\ Finish(i, Done(reqs[i], 500))
  /\ UNCHANGED <<storeVars, now, jwtRefreshTTL, nextId, aggVars>>

Answered(ev, st) == \E x \in responses : x.op = "webhook" /\ x.event = ev /\ x.status = st

\* the gateway still owes a delivery of ev: it got a 500 and never a 200
Undelivered(ev) ==
  /\ Answered(ev, 500) /\ ~Answered(ev, 200)
  /\ \A i \in ReqIds : reqs[i].event # ev

Redeliver == \E ev \in CheckoutEvents : Undelivered(ev) /\ WebhookStart(ev, TRUE)

HandlerStep ==
  \E i \in ReqIds : WebhookFindMany(i) \/ WebhookUpdate(i) \/ WebhookStoreError(i)

NextRetry ==
  \/ \E ev \in CheckoutEvents : WebhookStart(ev, TRUE)
  \/ \E i \in ReqIds : WebhookFindMany(i)
  \/ \E i \in ReqIds : WebhookUpdate(i)
  \/ \E i \in ReqIds : WebhookStoreError(i)

\* every handler in flight runs to its answer, and the gateway redelivers
SpecRetry ==
  InitPay /\ [][NextRetry]_vars /\ WF_vars(HandlerStep) /\ WF_vars(Redeliver)

\* the row of ev shows in the User row: the flag is set and the stored
\* mapping holds what the row contributes
Reflected(ev) ==
  \E u \in UserById(ev.userId) :
    /\ u.hasPurchasedVisibility
    /\ \A d \in {"contract", "full_time"} :
         Contribution(PaymentRow(ev), d)
           \subseteq Visible(ParseConfig(u.membershipConfig), d)

\* C12: every inserted CandidatePayment row is eventually reflected in its
\* user's membershipConfig and hasPurchasedVisibility, also when the handler
\* that inserted it fails with 500 and the gateway redelivers the event
\* until it is answered 200.
C12_InsertedRowEventuallyReflected ==
  \A ev \in CheckoutEvents :
    (PaymentsOfSession(ev.session) # {}) ~> Reflected(ev)

\* C13: the set of (domain, subdomain) pairs in a user's stored
\* membershipConfig never shrinks: every pair stored before a step of a
\* webhook handler is still stored after it.
C13_VisibilityNeverShrinks ==
  [][\A u \in users : \A v \in users' :
       v.id = u.id =>
         Pairs(ParseConfig(u.membershipConfig)) \subseteq Pairs(ParseConfig(v.membershipConfig))]_vars

WebhookResponses == {x \in responses : x.op = "webhook"}

\* C14: a webhook delivery whose signature verification fails is answered
\* 400 on arrival, whatever event it carries, and its handling changes no
\* Subscription, CandidatePayment or User row.
C14_BadSignatureRejected ==
  /\ [](\A i \in HandlersInFlight : reqs[i].sigOk)
  /\ [][\A x \in WebhookResponses' \ WebhookResponses :
          ~x.sigOk =>
            /\ x.status = 400
            /\ subscriptions' = subscriptions
            /\ payments' = payments
            /\ users' = users]_vars

\* rejected deliveries of a payment-mode checkout event and of a subscription
\* event whose customer has a Subscription row
C14_Witness ==
  \E x, y \in WebhookResponses :
    /\ ~x.sigOk /\ x.status = 400
    /\ x.event.type = "checkout.session.completed" /\ x.event.mode = "payment"
    /\ UserById(x.event.userId) # {}
    /\ ~y.sigOk /\ y.status = 400
    /\ y.event.type # "checkout.session.completed"
    /\ SubscriptionsOfCustomer(subscriptions, y.event.customer) # {}

-----------------------------------------------------------------------------
(* Properties of registration and OAuth account resolution *)

RegisterResponses == {x \in responses : x.op = "register"}

\* C15: a registration whose email already has a User row, active or
\* inactive, is answered 409 on its lookup and creates no User, Subscription
\* or RefreshToken row; no two User rows ever share an email, also after
\* concurrent registrations of one email.
C15_DuplicateEmailConflict ==
  /\ [](\A u, v \in users : u.email = v.email => u = v)
  /\ [](\A i \in ReqIds : reqs[i].op = "register" => ~reqs[i].taken)
  /\ [][\A x \in RegisterResponses' \ RegisterResponses :
          x.taken =>
            /\ x.status = 409
            /\ users' = users
            /\ subscriptions' = subscriptions
            /\ refreshTokens' = refreshTokens]_vars

\* a registration with the email of the deactivated account is refused, and
\* the loser of two concurrent registrations of a free email fails at the
\* unique index
C15_Witness ==
  /\ \E x \in RegisterResponses :
       x.taken /\ x.status = 409 /\ \E u \in UserByEmail(x.email) : ~u.isActive
  /\ \E y, z \in RegisterResponses :
       y.email = z.email /\ ~y.taken /\ ~z.taken /\ y.status = 201 /\ z.status = 500

OAuthRequests ==
  {x \in responses : x.op = "oauth"} \cup {reqs[i] : i \in {j \in ReqIds : reqs[j].op = "oauth"}}

\* one OAuth callback moves on without being answered
Resumed(i, from, to) ==
  /\ Len(reqs') = Len(reqs)
  /\ reqs[i].op = "oauth" /\ reqs[i].pc = from /\ reqs'[i].pc = to

\* C16: the OAuth resolution takes exactly one of three branches, in strict
\* order: the account with the provider's external id is returned
\* unchanged; otherwise the account with the profile's email gets the
\* external id attached and is returned; otherwise a new account is created
\* with no password, a generated username, a free active subscription and
\* the role of the state hint (vendor when the state starts with vendor,
\* candidate otherwise).
C16_OAuthThreeWayResolution ==
  /\ [](\A r \in OAuthRequests :
          /\ r.pc # "byEmail" => r.branch \in {"returning", "linked", "created"}
          /\ r.branch = "returning" <=> r.byGoogle
          /\ r.branch = "linked" => ~r.byGoogle /\ r.byEmail
          /\ r.branch = "created" => ~r.byGoogle /\ ~r.byEmail)
  /\ [][\A r \in OAuthRequests' \ OAuthRequests :
          (r.branch = "returning" /\ r.pc = "store") =>
            /\ users' = users
            /\ \E u \in users : u.id = r.uid /\ u.googleId = r.googleId]_vars
  /\ [][\A i \in ReqIds :
          Resumed(i, "link", "store") =>
            /\ reqs'[i].uid = reqs[i].uid
            /\ \E u \in users :
                 /\ u.id = reqs[i].uid /\ u.email = reqs[i].email
                 /\ users' = (users \ {u}) \cup {[u EXCEPT !.googleId = reqs[i].googleId]}
            /\ subscriptions' = subscriptions]_vars
  /\ [][\A i \in ReqIds :
          Resumed(i, "create", "store") =>
            \E u \in users' \ users :
              /\ users' = users \cup {u}
              /\ u.id = reqs'[i].uid /\ u.email = reqs[i].email
              /\ u.googleId = reqs[i].googleId
              /\ u.password = "none" /\ u.isActive
              /\ u.username \notin {"none", ""}
              /\ u.username = generateUsername(reqs[i].givenName, reqs[i].familyName, u.id)
              /\ u.userType = (IF reqs[i].state \in {"vendor:n1"} THEN "vendor" ELSE "candidate")
              /\ \E sub \in subscriptions' \ subscriptions :
                   /\ subscriptions' = subscriptions \cup {sub}
                   /\ sub.userId = u.id /\ sub.plan = "free" /\ sub.status = "active"]_vars

\* each branch has been taken by a callback that was answered with tokens
C16_Witness ==
  \E x, y, z \in responses :
    /\ x.op = "oauth" /\ x.branch = "returning" /\ x.refresh # NoToken
    /\ y.op = "oauth" /\ y.branch = "linked" /\ y.refresh # NoToken
    /\ z.op = "oauth" /\ z.branch = "created" /\ z.refresh # NoToken

OAuthResponses == {x \in responses : x.op = "oauth"}

\* C17: OAuth logins with one external id never create a second User row
\* and all resolve to the same account: a callback that finds the account
\* by its external id is answered with tokens of that account, sequentially
\* or concurrently; a callback whose email matches an (active) account
\* registered by email/password resolves to that account and creates none.
C17_OAuthSameAccountEveryTime ==
  /\ \A u, v \in users : (u.googleId # "none" /\ u.googleId = v.googleId) => u = v
  /\ \A u, v \in users : u.email = v.email => u = v
  /\ \A x, y \in OAuthResponses :
       (x.googleId = y.googleId /\ x.refresh # NoToken /\ y.refresh # NoToken) =>
         x.uid = y.uid
  /\ \A x \in OAuthResponses :
       /\ x.byGoogle =>
            /\ x.refresh # NoToken /\ x.refresh.userId = x.uid
            /\ \E u \in users : u.id = x.uid /\ u.googleId = x.googleId
       /\ (x.byEmail /\ ~x.inactive) =>
            /\ x.branch = "linked"
            /\ x.refresh # NoToken /\ x.refresh.userId = x.uid
            /\ \E u \in users : u.id = x.uid /\ u.email = x.email

\* an account registered with a password has been linked by an OAuth login,
\* and two later logins with the same external id are in flight at once,
\* both resolved to that account
C17_Witness ==
  /\ \E x \in OAuthResponses :
       /\ x.branch = "linked" /\ x.refresh # NoToken
       /\ \E u \in users : u.id = x.uid /\ u.password # "none" /\ u.googleId = x.googleId
       /\ \E i, j \in ReqIds :
            /\ i # j
            /\ reqs[i].op = "oauth" /\ reqs[j].op = "oauth"
            /\ reqs[i].branch = "returning" /\ reqs[j].branch = "returning"
            /\ reqs[i].googleId = x.googleId /\ reqs[j].googleId = x.googleId
            /\ reqs[i].uid = x.uid /\ reqs[j].uid = x.uid

\* C18: an OAuth callback that reaches the email-matching branch and finds
\* the matched account inactive fails with the account-deactivated error:
\* the external id is not attached (no User row changes) and no access or
\* refresh token is issued or stored.
C18_InactiveAccountNotLinked ==
  /\ [](\A i \in ReqIds : reqs[i].op = "oauth" => ~reqs[i].inactive)
  /\ [][\A x \in OAuthResponses' \ OAuthResponses :
          x.inactive =>
            /\ x.error = "Account is deactivated."
            /\ x.access = NoToken /\ x.refresh = NoToken
            /\ users' = users
            /\ refreshTokens' = refreshTokens]_vars

\* the callback was refused for the deactivated account, which still has no
\* external id
C18_Witness ==
  \E x \in OAuthResponses :
    /\ x.inactive /\ x.error = "Account is deactivated."
    /\ \E u \in users : u.email = x.email /\ ~u.isActive /\ u.googleId = "none"

\* the user rows a response issued tokens for
IssuedFor(x) == {u \in users : u.id = x.uid}

\* C19: no login, OAuth callback or refresh issues an access/refresh token
\* pair for a User row whose isActive flag is false.
C19_NoTokensForInactiveUser ==
  [][\A x \in responses' \ responses :
       x.refresh # NoToken => \A u \in IssuedFor(x) : u.isActive]_vars

-----------------------------------------------------------------------------
(* Properties of logout *)

LogoutResponses == {x \in responses : x.op = "logout"}

\* C20: an authenticated logout answers success whatever refresh token it
\* presents; it marks the presented token revoked when that token is
\* stored and active and changes no other RefreshToken row; it changes
\* nothing when the token is absent, already revoked or not supplied, so a
\* second logout with the same token leaves the state of the first.
C20_LogoutIdempotent ==
  [][\A x \in LogoutResponses' \ LogoutResponses :
       verifyAccessToken(x.bearer, now) =>
         /\ x.status = 200
         /\ \A s \in refreshTokens :
              IF s.token = x.token /\ ~s.revoked
                THEN [s EXCEPT !.revoked = TRUE] \in refreshTokens'
                ELSE s \in refreshTokens'
         /\ Cardinality(refreshTokens') = Cardinality(refreshTokens)
         /\ (x.token = NoToken \/ TokenAbsent(x.token) \/ TokenRevoked(x.token)) =>
              refreshTokens' = refreshTokens
         /\ \A s \in refreshTokens' : s.token = x.token => s.revoked
         /\ UNCHANGED <<users, subscriptions, payments>>]_vars

\* two logouts with the same stored token have been answered: the first
\* revoked it, the second found it revoked
C20_Witness ==
  \E x, y \in LogoutResponses :
    /\ x.seq < y.seq /\ x.token = y.token /\ x.token # NoToken
    /\ x.status = 200 /\ y.status = 200
    /\ \E s \in refreshTokens : s.token = x.token /\ s.revoked

-----------------------------------------------------------------------------
(* Properties of the RefreshToken table *)

DeleteResponses == {x \in responses : x.op = "delete"}

\* the account of uid is deleted in this step
Deleted(uid) ==
  /\ UserById(uid) # {}
  /\ \A u \in users' : u.id # uid
  /\ \E x \in DeleteResponses' \ DeleteResponses : x.status = 200 /\ x.bearer.userId = uid

\* C21: a stored refresh token only moves from active to revoked: every
\* step keeps each RefreshToken row with its id, token string, owner and
\* expiry, and keeps it revoked once it is revoked; a row disappears only in
\* the step that deletes its owner's account.
C21_RevokedIsTerminal ==
  [][\A s \in refreshTokens :
       \/ \E t \in refreshTokens' :
            /\ t.id = s.id /\ t.token = s.token /\ t.userId = s.userId
            /\ t.expiresAt = s.expiresAt
            /\ s.revoked => t.revoked
       \/ Deleted(s.userId)]_vars

\* a token revoked by a rotation is still stored, revoked, beside the active
\* token that replaced it, and a later logout with the old token has run
C21_Witness ==
  \E s, t \in refreshTokens :
    /\ s.revoked /\ ~t.revoked /\ t.userId = s.userId /\ s.id < t.id
    /\ \E x \in responses : x.op = "logout" /\ x.status = 200 /\ x.token = s.token
                            /\ x.bearer.exp >= t.expiresAt - DbTokenTTL + AccessTTL

\* 201 of register, 200 of login and refresh, the redirect to /oauth-callback
Succeeded(x) ==
  IF x.op = "oauth" THEN x.status = 302 /\ x.error = "" ELSE x.status \in {200, 201}

\* the account the request authenticated
Authenticated(x, u) ==
  CASE x.op = "refresh" -> u.id = x.token.userId
    [] x.op = "oauth" -> u.googleId = x.googleId
    [] OTHER -> u.email = x.email

\* C22: the step that answers a successful registration, login, OAuth
\* callback or refresh adds exactly one RefreshToken row: not revoked, owned
\* by the account the request authenticated, holding the refresh token the
\* response returns; a failed request of these kinds returns no access and
\* no refresh token.
C22_SuccessStoresOneActiveRow ==
  /\ [](\A x \in IssuingResponses :
          IF Succeeded(x)
            THEN x.refresh # NoToken /\ x.access # NoToken
            ELSE x.refresh = NoToken /\ x.access = NoToken)
  /\ [][\A x \in IssuingResponses' \ IssuingResponses :
          Succeeded(x) =>
            \E row \in refreshTokens' \ refreshTokens :
              /\ refreshTokens' = refreshTokens \cup {row}
              /\ ~row.revoked
              /\ row.token = x.refresh
              /\ row.userId = x.uid /\ x.refresh.userId = x.uid /\ x.access.userId = x.uid
              /\ \E u \in users : u.id = x.uid /\ Authenticated(x, u)
              /\ \A old \in refreshTokens : old.token # row.token /\ old.id # row.id]_vars

\* a registration, an OAuth callback and a refresh of the callback's token
\* have succeeded and the three rows are stored
C22_Witness ==
  \E x, y, z \in IssuingResponses :
    /\ x.op = "register" /\ y.op = "oauth" /\ z.op = "refresh"
    /\ Succeeded(x) /\ Succeeded(y) /\ Succeeded(z)
    /\ z.token = y.refresh
    /\ \A w \in {x, y, z} : \E row \in refreshTokens : row.token = w.refresh

-----------------------------------------------------------------------------
(* Account deletion beside the token and payment operations *)

\* zoe, a candidate who registered before the behaviour starts
Zoe ==
  [id |-> 10, email |-> "zoe", password |-> "pw", googleId |-> "none",
   userType |-> "candidate", isActive |-> TRUE,
   hasPurchasedVisibility |-> FALSE, membershipConfig |-> "null",
   username |-> generateUsername("", "", 10)]

\* the checkout sessions completed before the behaviour starts: one of
\* alice, one of zoe
PriorEvents ==
  { CHOOSE ev \in CheckoutEvents : ev.session = "cs_1",
    [type |-> "checkout.session.completed", session |-> "cs_7", amount |-> 1300, mode |-> "payment",
     userId |-> Zoe.id, packageId |-> "full_bundle", domain |-> "", subdomains |-> "[]"] }

PriorEventOf(uid) == CHOOSE ev \in PriorEvents : ev.userId = uid

\* what register answered at time 0 when it stored the row with id tid
PriorRegister(u, tid) ==
  [Done([NewReq("register") EXCEPT !.email = u.email, !.password = u.password,
                                   !.userType = u.userType, !.uid = u.id],
        201)
     EXCEPT !.access = signAccessToken(u.id, 0),
            !.refresh = signRefreshToken(u.id, tid, 0),
            !.notified = TRUE]

\* what login answered at time 0 when it stored the row with id tid
PriorLogin(u, tid) ==
  [Done([NewReq("login") EXCEPT !.email = u.email, !.password = u.password, !.uid = u.id],
        200)
     EXCEPT !.access = signAccessToken(u.id, 0),
            !.refresh = signRefreshToken(u.id, tid, 0)]

\* what the webhook answered after it had processed ev as the user's first purchase
PriorWebhook(ev) ==
  [Done(NewWebhook(ev), 200) EXCEPT !.allPayments = <<PaymentRow(ev)>>]

PriorTokenRow(uid, tid) ==
  [id |-> tid, token |-> signRefreshToken(uid, tid, 0), userId |-> uid,
   expiresAt |-> DbTokenTTL, revoked |-> FALSE]

\* the user row after the webhook has processed the user's prior purchase
Purchased(u) ==
  [u EXCEPT !.hasPurchasedVisibility = TRUE,
            !.membershipConfig =
               JSONstringify(computeMembershipConfig(
                 <<PaymentRow(PriorEventOf(u.id))>>).config)]

\* the store after zoe has registered (rows 10 and 11), alice has logged in
\* (row 12) and both have gone through one candidate checkout; the requests
\* of that prefix are answered and not counted in started
InitDelete ==
  /\ users = {Purchased(u) : u \in {u \in SeedUsers : u.id = 1} \cup {Zoe}}
               \cup {u \in SeedUsers : u.id # 1}
  /\ subscriptions =
       {x \in SeedSubscriptions : x.userId # 1}
         \cup {x \in BilledSubscriptions : x.userId = 1}
         \cup {[userId |-> Zoe.id, plan |-> "free", status |-> "active",
                stripeCustomerId |-> "cus_3", stripeSubId |-> "none",
                stripePriceId |-> "none", currentPeriodEnd |-> 0]}
  /\ now = 0
  /\ jwtRefreshTTL = DbTokenTTL + 2
  /\ refreshTokens = {PriorTokenRow(Zoe.id, 11), PriorTokenRow(1, 12)}
  /\ payments = <<PaymentRow(PriorEventOf(Zoe.id)), PaymentRow(PriorEventOf(1))>>
  /\ nextId = 13
  /\ reqs = <<>>
  /\ responses = {PriorRegister(Zoe, 11)}
                   \cup {PriorLogin(u, 12) : u \in {u \in SeedUsers : u.id = 1}}
                   \cup {PriorWebhook(ev) : ev \in PriorEvents}
  /\ started = 0
  /\ aggIn = <<>>
  /\ aggOut = [runs |-> 0, threw |-> FALSE, config |-> <<>>, prev |-> "null", stored |-> "null"]

\* the deliveries beside the deletion: alice's completed session again, and a
\* further purchase of hers
DeleteEvents == {ev \in CheckoutEvents : ev.session \in {"cs_1", "cs_2"}}

NextDelete ==
  \/ \E b \in ClientAccessTokens : DeleteAccount(b)
  \/ \E e \in {"alice"}, pw \in {"pw"} : LoginStart(e, pw)
  \/ \E i \in ReqIds : LoginStore(i)
  \/ \E tok \in ClientRefreshTokens : RefreshStart(tok)
  \/ \E i \in ReqIds : RefreshRevoke(i)
  \/ \E i \in ReqIds : RefreshFindUser(i)
  \/ \E i \in ReqIds : RefreshStore(i)
  \/ \E ev \in DeleteEvents : WebhookStart(ev, TRUE)
  \/ \E i \in ReqIds : WebhookFindMany(i)
  \/ \E i \in ReqIds : WebhookUpdate(i)
  \/ Tick

SpecDelete == InitDelete /\ [][NextDelete]_vars

\* C23: the step that answers an account deletion with success removes the
\* User row and every Subscription, RefreshToken and CandidatePayment row of
\* that user, and nothing else; no RefreshToken, CandidatePayment or
\* Subscription row ever refers to a user that has no User row; a /refresh
\* with a refresh token of a user whose row is gone is answered 401, returns
\* no token and writes nothing.
C23_DeletionCascades ==
  /\ [](\A s \in refreshTokens \cup subscriptions : UserById(s.userId) # {})
  /\ [](\A k \in 1..Len(payments) : UserById(payments[k].userId) # {})
  /\ [][\A x \in DeleteResponses' \ DeleteResponses :
          x.status = 200 =>
            LET uid == x.bearer.userId
            IN /\ UserById(uid) # {}
               /\ users' = users \ UserById(uid)
               /\ subscriptions' = {s \in subscriptions : s.userId # uid}
               /\ refreshTokens' = {s \in refreshTokens : s.userId # uid}
               /\ payments' = SelectSeq(payments, LAMBDA p : p.userId # uid)]_vars
  /\ [][\A x \in RefreshResponses' \ RefreshResponses :
          (x.token.typ = "refresh" /\ UserById(x.token.userId) = {}) =>
            /\ x.status = 401 /\ x.refresh = NoToken /\ x.access = NoToken
            /\ UNCHANGED storeVars]_vars

\* alice's account, with a token row and payment rows, has been deleted
\* while a checkout webhook of hers was being handled; the webhook was
\* answered 500, a /refresh with her former token 401, and zoe's rows are
\* all still stored
C23_Witness ==
  /\ \E d \in DeleteResponses : d.status = 200 /\ d.bearer.userId = 1
  /\ \E x \in RefreshResponses :
       x.token \in ClientRefreshTokens /\ x.token.userId = 1 /\ x.status = 401
  /\ \E w \in responses :
       /\ w.op = "webhook" /\ w.status = 500
       /\ w.event.userId = 1 /\ w.allPayments # <<>>
  /\ \E u \in users : u.id = Zoe.id /\ u.hasPurchasedVisibility
  /\ \E s \in refreshTokens : s.userId = Zoe.id
  /\ \E s \in subscriptions : s.userId = Zoe.id
  /\ \E k \in 1..Len(payments) : payments[k].userId = Zoe.id

-----------------------------------------------------------------------------
(* Properties of the subscription webhooks *)

\* the verified deliveries of events of the given types answered in this step
NewlyAnswered(types) ==
  {x \in WebhookResponses' \ WebhookResponses : x.sigOk /\ x.event.type \in types}

\* C24: the step that handles a verified customer.subscription.deleted event
\* sets every Subscription row with the event's customer id to plan free with
\* subscription id, price id and period end cleared, leaves every other
\* Subscription row as it was, changes no User and no CandidatePayment row,
\* and is answered 200.
C24_SubscriptionDeletedResets ==
  [][\A x \in NewlyAnswered({"customer.subscription.deleted"}) :
       /\ x.status = 200
       /\ \A row \in subscriptions :
            IF row.stripeCustomerId = x.event.customer
              THEN \E new \in subscriptions' :
                     /\ new.userId = row.userId /\ new.stripeCustomerId = row.stripeCustomerId
                     /\ new.plan = "free" /\ new.stripeSubId = "none"
                     /\ new.stripePriceId = "none" /\ new.currentPeriodEnd = 0
              ELSE row \in subscriptions'
       /\ Cardinality(subscriptions') = Cardinality(subscriptions)
       /\ UNCHANGED <<users, payments, refreshTokens>>]_vars

\* dan's subscription was activated on the pro plan and then deleted: it is
\* back on free with its ids cleared, and alice's row still has her plan
C24_Witness ==
  /\ \E x, y \in WebhookResponses :
       /\ x.event.type = "customer.subscription.created" /\ x.status = 200
       /\ y.event.type = "customer.subscription.deleted" /\ y.status = 200
       /\ x.event.customer = y.event.customer
       /\ \E row \in subscriptions :
            /\ row.stripeCustomerId = y.event.customer
            /\ row.plan = "free" /\ row.status = "canceled" /\ row.stripeSubId = "none"
  /\ \E other \in subscriptions : other.stripeCustomerId = "cus_1" /\ other.plan = "pro"

\* the price ids the deployment configures for the paid tiers
TierPrices == {<<"basic", "price_basic">>, <<"pro", "price_pro">>, <<"pro_plus", "price_pro_plus">>}

\* the webhook requests in flight
WebhooksInFlight == {reqs[i] : i \in {j \in ReqIds : reqs[j].op = "webhook"}}

\* the verified subscription created/updated deliveries whose updateMany
\* runs in this step: the handler suspends after it (created, rows matched)
\* or answers at once
SubscriptionApplied ==
  {x \in (WebhooksInFlight' \ WebhooksInFlight) \cup
         (IF Len(reqs') = Len(reqs) THEN WebhookResponses' \ WebhookResponses ELSE {}) :
     /\ x.sigOk
     /\ x.event.type \in {"customer.subscription.created", "customer.subscription.updated"}
     /\ x.pc \in {"findFirst", "done"} /\ ~x.notified}

\* C25: the step that handles a verified subscription created or updated
\* event sets, on every Subscription row with the event's customer id, the
\* plan to the tier configured with the event's price id (free when no tier
\* has it) and the status, subscription id and period end of the event, and
\* leaves every other row as it was: nothing changes when no row matches.
\* The subscription-activated notification is dispatched only by the handler
\* of a created event whose update matched at least one row.
C25_SubscriptionAppliedByPrice ==
  /\ [][\A x \in SubscriptionApplied :
          LET ev == x.event
              tiers == {t \in TierPrices : t[2] = ev.priceId}
              plan == IF tiers = {} THEN "free" ELSE (CHOOSE t \in tiers : TRUE)[1]
              matching == {row \in subscriptions : row.stripeCustomerId = ev.customer}
          IN /\ x.count = Cardinality(matching)
             /\ subscriptions' =
                  (subscriptions \ matching) \cup
                  {[row EXCEPT !.plan = plan, !.status = ev.status, !.stripeSubId = ev.subId,
                               !.stripePriceId = ev.priceId,
                               !.currentPeriodEnd = ev.periodEnd] : row \in matching}
             /\ matching = {} => subscriptions' = subscriptions
             /\ (x.pc = "findFirst") <=>
                  (matching # {} /\ ev.type = "customer.subscription.created")
             /\ UNCHANGED <<users, payments, refreshTokens>>]_vars
  /\ [](\A x \in WebhookResponses \cup WebhooksInFlight :
          x.notified \/ x.pc \in {"findFirst", "findUser"} =>
            x.sigOk /\ x.event.type = "customer.subscription.created" /\ x.count > 0)

\* a created event moved dan's row to the tier of its price and dispatched
\* the notification; an updated event with a price of no tier then put the
\* row on free, with the event's status, without a notification
C25_Witness ==
  \E x, y \in WebhookResponses :
    /\ x.event.type = "customer.subscription.created" /\ x.notified /\ x.count = 1
    /\ x.event.priceId = "price_pro"
    /\ y.event.type = "customer.subscription.updated" /\ y.status = 200 /\ ~y.notified
    /\ y.event.customer = x.event.customer
    /\ \E row \in subscriptions :
         /\ row.stripeCustomerId = y.event.customer
         /\ row.plan = "free" /\ row.status = "past_due" /\ row.stripeSubId = y.event.subId

-----------------------------------------------------------------------------
(* Properties of the checkout webhook's guards and of the payment rows *)

\* the session is not a one-time payment, or its metadata names no user or
\* no package
NotAPurchase(ev) ==
  /\ ev.type = "checkout.session.completed"
  /\ ev.mode # "payment" \/ ev.userId = 0 \/ ev.packageId = ""

\* C26: a verified checkout.session.completed delivery whose session mode is
\* not payment, or whose metadata lacks the user id or the package id, is
\* answered 200 at once; its step inserts no CandidatePayment row and
\* changes no User row, and no row with its session id is ever stored.
C26_NonPurchaseSessionIgnored ==
  /\ [][\A x \in WebhookResponses' \ WebhookResponses :
          (x.sigOk /\ NotAPurchase(x.event)) =>
            /\ x.status = 200
            /\ UNCHANGED <<payments, users, subscriptions>>]_vars
  /\ [](\A x \in WebhooksInFlight : ~NotAPurchase(x.event))
  /\ [](\A k \in 1..Len(payments) :
          \A ev \in CheckoutEvents :
            NotAPurchase(ev) => payments[k].stripeSessionId # ev.session)

\* two of the three kinds have been delivered, a subscription-mode session
\* and a payment session without a package id or without a user id: both
\* were answered 200 and the tables are as seeded
C26_Witness ==
  \E x, y \in WebhookResponses :
    /\ x.sigOk /\ x.event.type = "checkout.session.completed" /\ x.status = 200
    /\ y.sigOk /\ y.event.type = "checkout.session.completed" /\ y.status = 200
    /\ x.event.mode # "payment"
    /\ y.event.mode = "payment" /\ (y.event.userId = 0 \/ y.event.packageId = "")
    /\ payments = <<>> /\ users = SeedUsers

-----------------------------------------------------------------------------
(* Registration and subscription activation with a notification service    *)
(* that may fail                                                            *)

NextNotify ==
  \/ \E e \in Emails, ut \in {"candidate", "vendor"} : RegisterStart(e, ut)
  \/ \E i \in ReqIds : RegisterCreate(i)
  \/ \E i \in ReqIds, ok \in SendResults : RegisterStore(i, ok)
  \/ \E ev \in SubscriptionEvents : WebhookSubscription(ev, TRUE)
  \/ \E i \in ReqIds : WebhookFindFirst(i)
  \/ \E i \in ReqIds, ok \in SendResults : WebhookFindUser(i, ok)

SpecNotify == InitPay /\ [][NextNotify]_vars

\* the responses of the handlers that dispatched a notification
Notifying == {x \in responses : x.notified}

\* C27: a handler that dispatched a notification answers as it does when the
\* send succeeds, whether the send resolves or rejects: a registration is
\* answered 201 with the token pair it signed, its RefreshToken row is
\* stored in the answering step and the User and Subscription rows it
\* created stay; a subscription-created webhook is answered 200 and its
\* answering step writes nothing, so the updated Subscription row stays.
C27_NotificationFailureHarmless ==
  /\ [](\A x \in Notifying :
          \A ok \in SendResults :
            x.sendOk = ok => x.status = (IF x.op = "register" THEN 201 ELSE 200))
  /\ [][\A x \in Notifying' \ Notifying :
          IF x.op = "register"
            THEN /\ x.access = signAccessToken(x.uid, now)
                 /\ x.refresh = signRefreshToken(x.uid, nextId, now)
                 /\ refreshTokens' = refreshTokens \cup
                      {[id |-> nextId, token |-> x.refresh, userId |-> x.uid,
                        expiresAt |-> now + DbTokenTTL, revoked |-> FALSE]}
                 /\ \E u \in users : u.id = x.uid /\ u.email = x.email
                 /\ \E sub \in subscriptions : sub.userId = x.uid
                 /\ UNCHANGED <<users, subscriptions, payments>>
            ELSE /\ x.op = "webhook"
                 /\ x.event.type = "customer.subscription.created"
                 /\ UNCHANGED storeVars]_vars

\* both sends have failed: the registration was answered 201 and its three
\* rows are stored, and the created webhook was answered 200 with dan's
\* subscription on the plan of the event
C27_Witness ==
  \E x, y \in Notifying :
    /\ x.op = "register" /\ ~x.sendOk /\ x.status = 201 /\ x.refresh # NoToken
    /\ \E u \in users : u.id = x.uid /\ u.email = x.email
    /\ \E sub \in subscriptions : sub.userId = x.uid /\ sub.plan = "free"
    /\ \E row \in refreshTokens : row.token = x.refresh /\ ~row.revoked
    /\ y.op = "webhook" /\ ~y.sendOk /\ y.status = 200
    /\ \E sub \in subscriptions :
         /\ sub.stripeCustomerId = y.event.customer
         /\ sub.plan = PlanOfPrice(y.event.priceId) /\ sub.status = y.event.status

-----------------------------------------------------------------------------
(* POST /checkout and POST /candidate-checkout, both behind requireAuth     *)

\* the body of a checkout request: planId (createCheckout) or packageId,
\* domain and subdomains (createCandidateCheckout); "" and <<>> also stand
\* for a field the body lacks
CheckoutBodies ==
  { [item |-> "pro", domain |-> "", subdomains |-> <<>>],
    [item |-> "free", domain |-> "", subdomains |-> <<>>],
    [item |-> "", domain |-> "", subdomains |-> <<>>],
    [item |-> "base", domain |-> "contract", subdomains |-> <<"c2c">>],
    [item |-> "base", domain |-> "", subdomains |-> <<"c2c">>],
    [item |-> "base", domain |-> "contract", subdomains |-> <<"c2c", "w2">>],
    [item |-> "base", domain |-> "contract", subdomains |-> <<>>],
    [item |-> "subdomain_addon", domain |-> "contract", subdomains |-> <<"w2">>],
    [item |-> "subdomain_addon", domain |-> "contract", subdomains |-> <<>>],
    [item |-> "subdomain_addon", domain |-> "", subdomains |-> <<"w2">>],
    [item |-> "single_domain_bundle", domain |-> "full_time", subdomains |-> <<>>],
    [item |-> "single_domain_bundle", domain |-> "", subdomains |-> <<>>],
    [item |-> "full_bundle", domain |-> "", subdomains |-> <<>>] }

\* a body the route accepts
ValidBody(kind) ==
  IF kind = "vendor" THEN [item |-> "pro", domain |-> "", subdomains |-> <<>>]
  ELSE [item |-> "base", domain |-> "contract", subdomains |-> <<"c2c">>]

\* VENDOR_PLAN_DEFINITIONS with a stripePriceId: the free plan has none
PaidPlans == {"basic", "pro", "pro_plus"}

BodyRefused_DomainOptional(kind, body) ==
  IF kind = "vendor" THEN body.item \notin PaidPlans
  ELSE \/ body.item \notin PackageTypes
       \/ body.item = "base" /\ Len(body.subdomains) # 1
       \/ body.item = "subdomain_addon" /\ Len(body.subdomains) = 0

\* the checks answered 400: !plan || !plan.stripePriceId in createCheckout;
\* !packageId, !pkg and the per-package rules in createCandidateCheckout
\* (every package has a configured price)
BodyRefused(kind, body) ==
  IF kind = "vendor" THEN body.item \notin PaidPlans
  ELSE \/ body.item \notin PackageTypes
       \/ body.item = "base" /\ (body.domain = "" \/ Len(body.subdomains) # 1)
       \/ body.item = "subdomain_addon" /\ (body.domain = "" \/ Len(body.subdomains) = 0)
       \/ body.item = "single_domain_bundle" /\ body.domain = ""

NewCheckout(bearer, kind, body) ==
  [op |-> "checkout", pc |-> "start", status |-> 0, bearer |-> bearer,
   kind |-> kind,           \* the account type the route is for
   body |-> body,
   uid |-> NoUser,
   visible |-> FALSE,       \* user.hasPurchasedVisibility of the row findUnique returned
   customer |-> "none",     \* stripeCustomerId
   created |-> FALSE,       \* history: the handler created a gateway customer
   session |-> FALSE]       \* history: the handler created a checkout session

\* stripe.customers.create: every call makes a new customer of the gateway
createOrGetStripeCustomer(n) == "cus_" \o ToString(n)

SubscriptionOf(uid) == {x \in subscriptions : x.userId = uid}

\* requireAuth, the checks of the body, prisma.user.findUnique({ include:
\* { subscription } }), the account-type guard and
\* user.subscription?.stripeCustomerId
CheckoutStart(bearer, kind, body) ==
  /\ CanStart
  /\ LET r == NewCheckout(bearer, kind, body)
         found == UserById(bearer.userId)
     IN IF ~verifyAccessToken(bearer, now)
          THEN Reply(Done(r, 401))
        ELSE IF BodyRefused(kind, body)
          THEN Reply(Done(r, 400))
        ELSE IF found = {}
          THEN Reply(Done(r, 404))
        ELSE IF \E u \in found : u.userType # kind
          THEN Reply(Done(r, 403))
        ELSE LET u == CHOOSE u \in found : TRUE
                 seen == [r EXCEPT !.uid = u.id, !.visible = u.hasPurchasedVisibility]
                 held == {x \in SubscriptionOf(u.id) : x.stripeCustomerId # "none"}
             IN IF held # {}
                  THEN Reply([Done(seen, 200) EXCEPT
                                !.customer = (CHOOSE x \in held : TRUE).stripeCustomerId,
                                !.session = TRUE])
                  ELSE Begin([seen EXCEPT !.pc = "customer"])
  /\ UNCHANGED <<storeVars, now, jwtRefreshTTL, nextId, aggVars>>

\* await createOrGetStripeCustomer(user.id, user.email, name)
CheckoutCustomer(i) ==
  /\ reqs[i].op = "checkout" /\ reqs[i].pc = "customer"
  /\ Step(i, [reqs[i] EXCEPT !.pc = "upsert", !.created = TRUE,
                             !.customer = createOrGetStripeCustomer(nextId)])
  /\ nextId' = nextId + 1
  /\ UNCHANGED <<storeVars, now, jwtRefreshTTL, aggVars>>

\* prisma.subscription.upsert({ where: { userId }, create: {...}, update: { stripeCustomerId } }),
\* the checkout session and the answer with its url
CheckoutUpsert(i) ==
  /\ reqs[i].op = "checkout" /\ reqs[i].pc = "upsert"
  /\ LET r == reqs[i]
     IN IF UserById(r.uid) = {}
          THEN /\ Finish(i, Done(r, 500))
               /\ UNCHANGED subscriptions
          ELSE /\ subscriptions' =
                    IF SubscriptionOf(r.uid) = {}
                      THEN subscriptions \cup
                             {[userId |-> r.uid, plan |-> "free", status |-> "active",
                               stripeCustomerId |-> r.customer, stripeSubId |-> "none",
                               stripePriceId |-> "none", currentPeriodEnd |-> 0]}
                      ELSE {IF x.userId = r.uid
                              THEN [x EXCEPT !.stripeCustomerId = r.customer]
                              ELSE x : x \in subscriptions}
               /\ Finish(i, [Done(r, 200) EXCEPT !.session = TRUE])
  /\ UNCHANGED <<users, refreshTokens, payments, now, jwtRefreshTTL, nextId, aggVars>>

\* the seeded store after dan, the vendor, has been through a checkout
InitVisibility ==
  /\ users = SeedUsers
  /\ subscriptions = {x \in SeedSubscriptions : x.userId = 1}
                       \cup {x \in BilledSubscriptions : x.userId # 1}
  /\ refreshTokens = {}
  /\ payments = <<>>
  /\ now = 0
  /\ jwtRefreshTTL = DbTokenTTL + 2
  /\ nextId = 10
  /\ reqs = <<>>
  /\ responses = {}
  /\ started = 0
  /\ aggIn = <<>>
  /\ aggOut = [runs |-> 0, threw |-> FALSE, config |-> <<>>, prev |-> "null", stored |-> "null"]

\* the webhooks of every type beside the operations of a signed-in user
NextVisibility ==
  \/ \E ev \in CheckoutEvents : WebhookStart(ev, TRUE)
  \/ \E i \in ReqIds : WebhookFindMany(i)
  \/ \E i \in ReqIds : WebhookUpdate(i)
  \/ \E ev \in SubscriptionEvents : WebhookSubscription(ev, TRUE)
  \/ \E i \in ReqIds : WebhookFindFirst(i)
  \/ \E i \in ReqIds, ok \in {TRUE} : WebhookFindUser(i, ok)
  \/ \E e \in {"alice"}, pw \in {"pw"} : LoginStart(e, pw)
  \/ \E i \in ReqIds : LoginStore(i)
  \/ \E tok \in ClientRefreshTokens : RefreshStart(tok)
  \/ \E i \in ReqIds : RefreshRevoke(i)
  \/ \E i \in ReqIds : RefreshFindUser(i)
  \/ \E i \in ReqIds : RefreshStore(i)
  \/ \E b \in ClientAccessTokens, tok \in ClientRefreshTokens : Logout(b, tok)
  \/ \E b \in ClientAccessTokens, kind \in {"candidate", "vendor"} :
       CheckoutStart(b, kind, ValidBody(kind))
  \/ \E i \in ReqIds : CheckoutCustomer(i)
  \/ \E i \in ReqIds : CheckoutUpsert(i)
  \/ \E b \in ClientAccessTokens : DeleteAccount(b)

SpecVisibility == InitVisibility /\ [][NextVisibility]_vars

\* the verified payment-mode checkout deliveries for uid that are answered
\* 200 in this step
Processed(uid) ==
  {x \in WebhookResponses' \ WebhookResponses :
     /\ x.sigOk /\ x.status = 200
     /\ x.event.type = "checkout.session.completed" /\ x.event.mode = "payment"
     /\ x.event.userId = uid}

\* C28: no step sets hasPurchasedVisibility of an existing User row from
\* true to false; a row gets the flag only in the step in which a verified
\* payment-mode checkout.session.completed webhook for that user is
\* answered 200, and a row that is created starts without it.
C28_VisibilityFlagMonotone ==
  [][\A v \in users' :
       LET before == {u \in users : u.id = v.id}
       IN /\ (\E u \in before : u.hasPurchasedVisibility) => v.hasPurchasedVisibility
          /\ (v.hasPurchasedVisibility /\ \E u \in before : ~u.hasPurchasedVisibility) =>
               Processed(v.id) # {}
          /\ before = {} => ~v.hasPurchasedVisibility]_vars

\* alice bought visibility; then, signed in, she created a checkout whose
\* handler read the flag as true and attached the gateway customer to her
\* subscription; the flag is still true
C28_Witness ==
  /\ \E u \in users : u.id = 1 /\ u.hasPurchasedVisibility
  /\ \E x \in responses :
       /\ x.op = "checkout" /\ x.status = 200 /\ x.uid = 1 /\ x.visible
       /\ x.created
       /\ \E sub \in subscriptions : sub.userId = 1 /\ sub.stripeCustomerId = x.customer

-----------------------------------------------------------------------------
(* The CandidatePayment rows *)

PaymentSet(rows) == {rows[k] : k \in 1..Len(rows)}

\* C29: a CandidatePayment row keeps every field for as long as a row of its
\* session id exists (its session id, package type, domain, subdomains,
\* amount and status are the ones it was inserted with); the only rows that
\* leave the table are those of a user whose row is deleted in the same
\* step; and every row a step inserts has status completed.
C29_PaymentRowsImmutable ==
  [][/\ \A p \in PaymentSet(payments) :
          \/ p \in PaymentSet(payments')
          \/ /\ \A q \in PaymentSet(payments') : q.stripeSessionId # p.stripeSessionId
             /\ UserById(p.userId) # {}
             /\ \A u \in users' : u.id # p.userId
     /\ \A q \in PaymentSet(payments') \ PaymentSet(payments) :
          /\ q.status = "completed"
          /\ \A p \in PaymentSet(payments) : p.stripeSessionId # q.stripeSessionId]_vars

\* two purchases of alice are stored, the first row as it was inserted,
\* after the second webhook and a login were answered
C29_Witness ==
  /\ Len(payments) = 2
  /\ payments[1] \in EventRows /\ payments[1].amountCents > 0
  /\ \E x \in WebhookResponses :
       /\ x.status = 200 /\ Len(x.allPayments) = 2
       /\ x.event.session = payments[2].stripeSessionId
  /\ \E x \in responses : x.op = "login" /\ x.status = 200

-----------------------------------------------------------------------------
(* The two token categories at requireAuth and at /refresh *)

\* every token a client holds, and a string that is no token of the service
PresentedTokens == ClientAccessTokens \cup ClientRefreshTokens \cup {Garbage}

\* a signed-in client presents tokens of either category, fresh or expired,
\* at the routes behind requireAuth and at /refresh
NextTokens ==
  \/ \E e \in {"alice"}, pw \in {"pw"} : LoginStart(e, pw)
  \/ \E i \in ReqIds : LoginStore(i)
  \/ \E tok \in PresentedTokens : RefreshStart(tok)
  \/ \E i \in ReqIds : RefreshRevoke(i)
  \/ \E i \in ReqIds : RefreshFindUser(i)
  \/ \E i \in ReqIds : RefreshStore(i)
  \/ \E b \in PresentedTokens, tok \in ClientRefreshTokens : Logout(b, tok)
  \/ \E b \in PresentedTokens : DeleteAccount(b)
  \/ \E b \in PresentedTokens, kind \in {"candidate"} : CheckoutStart(b, kind, ValidBody(kind))
  \/ \E i \in ReqIds : CheckoutCustomer(i)
  \/ \E i \in ReqIds : CheckoutUpsert(i)
  \/ Tick

SpecTokens == Init /\ [][NextTokens]_vars

RequestsInFlight == {reqs[i] : i \in ReqIds}

\* the request that arrives in this step, suspended or answered
Arriving ==
  IF started' = started THEN {}
  ELSE (RequestsInFlight' \cup responses') \ (RequestsInFlight \cup responses)

\* tok, presented where a token of category cat is expected, is of the other
\* category, expired, or no token of the service
Unacceptable(tok, cat) ==
  \/ tok = Garbage
  \/ tok.exp <= now
  \/ cat = "access" /\ tok \in ClientRefreshTokens
  \/ cat = "refresh" /\ tok \in ClientAccessTokens

Rejected(x) ==
  \/ x.op \in {"logout", "delete", "checkout"} /\ Unacceptable(x.bearer, "access")
  \/ x.op = "refresh" /\ Unacceptable(x.token, "refresh")

\* C30: a request that presents a refresh token as its Bearer token, an
\* access token at /refresh, or an expired or malformed token in either
\* place is answered 401 in the step in which it arrives, and that step
\* changes no stored row.
C30_TokenCategoriesSeparate ==
  [][\A x \in Arriving :
       Rejected(x) => /\ x \in responses' /\ x.status = 401
                      /\ UNCHANGED storeVars]_vars

\* alice signed in; her refresh token was refused as a Bearer token at
\* logout and her access token was refused at /refresh, both while
\* unexpired, and the token row of her login is as it was stored
C30_Witness ==
  /\ \E x \in responses :
       /\ x.op = "logout" /\ x.status = 401
       /\ x.bearer \in ClientRefreshTokens /\ now < x.bearer.exp
       /\ \E s \in refreshTokens : s.token = x.bearer /\ ~s.revoked
  /\ \E x \in responses :
       /\ x.op = "refresh" /\ x.status = 401
       /\ x.token \in ClientAccessTokens /\ now < x.token.exp

-----------------------------------------------------------------------------
(* The order of the writes of POST /refresh *)

\* the refresh requests that are past the update that revokes the presented
\* token and are answered with a failure in this step
FailedAfterRevoke ==
  {reqs[i] : i \in {j \in ReqIds :
      /\ reqs[j].op = "refresh" /\ reqs[j].pc \in {"findUser", "store"}
      /\ Len(reqs') < Len(reqs)
      /\ \E x \in RefreshResponses' \ RefreshResponses :
           x.token = reqs[j].token /\ x.status # 200}}

\* the row of the new token of a successful /refresh is stored only when the
\* presented token is no longer active
RevokedBeforeStored ==
  \A x \in RefreshResponses :
    (x.status = 200 /\ TokenRowsByToken(x.refresh) # {}) =>
      \A s \in TokenRowsByToken(x.token) : s.revoked

\* C31: in every state, when the row of the new token of a successful /refresh
\* is stored the presented token is revoked; and revoke-and-reissue is atomic:
\* the step in which a /refresh fails after it revoked the presented token
\* leaves that token active (or a new active token of its user stored), so
\* the session is not left without an active token.
C31_RevokeAndReissueAtomic ==
  /\ []RevokedBeforeStored
  /\ [][\A r \in FailedAfterRevoke :
          \E s \in refreshTokens' :
            s.userId = r.token.userId /\ ~s.revoked
            /\ (s.token = r.token \/ s \notin refreshTokens)]_vars

\* the refresh requests whose lookup found an active row, that revoked it,
\* and whose user lookup, run in this step, finds no active user
OwnerUnusable ==
  {i \in ReqIds : /\ reqs[i].op = "refresh" /\ reqs[i].pc = "findUser"
                  /\ \/ reqs' = Remove(reqs, i)
                     \/ Len(reqs') = Len(reqs) /\ reqs'[i] # reqs[i]
                  /\ \A u \in UserById(reqs[i].token.userId) : ~u.isActive}

\* C32: a /refresh that presented a valid stored token and finds the owning
\* user missing or inactive is answered 401 without a token pair; the step
\* stores no RefreshToken row, and the presented token, which the handler
\* revoked before it looked the user up, is not active (its row is revoked,
\* or gone with the deleted user).
C32_UnusableOwnerRevokesAnyway ==
  [][\A i \in OwnerUnusable :
       /\ \E x \in RefreshResponses' :
            /\ x.token = reqs[i].token /\ ~x.badAtLookup /\ x.status = 401
            /\ x.access = NoToken /\ x.refresh = NoToken
       /\ UNCHANGED <<refreshTokens, nextId>>
       /\ \A s \in TokenRowsByToken(reqs[i].token) : s.revoked
       /\ UserById(reqs[i].token.userId) # {} => TokenRowsByToken(reqs[i].token) # {}]_vars

\* the deactivated alice presented the refresh token of her Google sign-in:
\* the request was refused after the lookup had found the row active, the
\* row is revoked and no token descends from it
C32_Witness ==
  \E x \in RefreshResponses :
    /\ x.status = 401 /\ ~x.badAtLookup /\ x.token \in ClientRefreshTokens
    /\ \E u \in UserById(x.token.userId) : ~u.isActive
    /\ \E s \in TokenRowsByToken(x.token) : s.revoked
    /\ Descendants(x.token) = {}
    /\ \A s \in refreshTokens : s.userId = x.token.userId => s.revoked

-----------------------------------------------------------------------------
(* Properties of POST /login *)

LoginResponses == {x \in responses : x.op = "login"}

\* the state of the account of an arriving login
Unknown(x) == UserByEmail(x.email) = {}
Inactive(x) == \E u \in UserByEmail(x.email) : ~u.isActive
Passwordless(x) == \E u \in UserByEmail(x.email) : u.password = "none"
Mismatch(x) == \E u \in UserByEmail(x.email) : u.password # x.password

\* C33: a login whose email is unknown, whose account is inactive or has no
\* password, or whose password does not match is answered 401 in the step
\* in which it arrives, and that step stores no RefreshToken row; any other
\* login goes on to issue its pair, and a login is answered 200 only as the
\* completion of such a request.
C33_LoginRefusals ==
  [][/\ \A x \in {y \in Arriving : y.op = "login"} :
          IF Unknown(x) \/ Inactive(x) \/ Passwordless(x) \/ Mismatch(x)
            THEN x \in responses' /\ x.status = 401 /\ x.refresh = NoToken
                 /\ UNCHANGED refreshTokens
            ELSE x \in RequestsInFlight' /\ x.pc = "store"
     /\ \A x \in LoginResponses' \ LoginResponses :
          x.status = 200 =>
            \E i \in ReqIds : /\ reqs[i].op = "login" /\ reqs' = Remove(reqs, i)
                              /\ reqs[i].email = x.email
                              /\ reqs[i].password = x.password]_vars

\* zoe registered; her login with another password was refused and stored
\* nothing, her login with her password was answered 200, and the one row
\* besides the registration's is that login's
C33_Witness ==
  /\ \E x \in LoginResponses : x.email = "zoe" /\ x.password = "wrong" /\ x.status = 401
  /\ \E x \in LoginResponses :
       /\ x.email = "zoe" /\ x.password = "pw" /\ x.status = 200
       /\ TokenRowsByToken(x.refresh) # {}
  /\ Cardinality(refreshTokens) = 2

-----------------------------------------------------------------------------
(* Whose token a logout revokes *)

\* the rows that are active before this step and revoked after it
NewlyRevoked ==
  {s \in refreshTokens : ~s.revoked /\ \E t \in refreshTokens' : t.id = s.id /\ t.revoked}

\* C34: the step of a logout authenticated as user A revokes only rows
\* owned by A; a refresh token of another user B presented in the body
\* stays active.
C34_LogoutRevokesOwnTokenOnly ==
  [][\A x \in {y \in Arriving : y.op = "logout"} :
       \A s \in NewlyRevoked : s.userId = x.bearer.userId]_vars

-----------------------------------------------------------------------------
(* The owner of a RefreshToken row *)

\* C35: the userId of every RefreshToken row is the userId claim of its
\* token string, and a /refresh answered 200 issues both tokens of the new
\* pair for the owner of the stored row of the presented token, and stores
\* the new row for that owner.
C35_RowOwnerIsTokenSubject ==
  /\ \A s \in refreshTokens : s.userId = s.token.userId
  /\ \A x \in RefreshResponses :
       x.status = 200 =>
         /\ \A s \in TokenRowsByToken(x.token) :
              x.access.userId = s.userId /\ x.refresh.userId = s.userId
         /\ x.access.userId = x.token.userId /\ x.refresh.userId = x.token.userId
         /\ \A s \in TokenRowsByToken(x.refresh) : s.userId = x.token.userId

\* alice holds an active row from her login; zoe, registered, presented her
\* refresh token and got a new pair whose row is stored for zoe
C35_Witness ==
  /\ \E s \in refreshTokens : s.userId = 1 /\ ~s.revoked
  /\ \E x \in RefreshResponses :
       /\ x.status = 200 /\ x.token.userId # 1
       /\ \E s \in TokenRowsByToken(x.token) : s.revoked /\ s.userId = x.token.userId
       /\ \E s \in TokenRowsByToken(x.refresh) : ~s.revoked /\ s.userId = x.token.userId

-----------------------------------------------------------------------------
(* Checkout creation by a candidate and a vendor *)

\* alice, a candidate, and dan, a vendor, sign in and create checkouts with
\* every body, one after the other or at once
NextCheckout ==
  \/ \E e \in {"alice", "dan"}, pw \in {"pw"} : LoginStart(e, pw)
  \/ \E i \in ReqIds : LoginStore(i)
  \/ \E b \in ClientAccessTokens, kind \in {"candidate", "vendor"}, body \in CheckoutBodies :
       CheckoutStart(b, kind, body)
  \/ \E i \in ReqIds : CheckoutCustomer(i)
  \/ \E i \in ReqIds : CheckoutUpsert(i)

SpecCheckout == Init /\ [][NextCheckout]_vars

\* the users for whom a checkout handler creates a gateway customer in this step
CustomerCreatedFor ==
  {reqs[i].uid : i \in {j \in ReqIds : /\ reqs[j].op = "checkout"
                                       /\ Len(reqs') = Len(reqs)
                                       /\ ~reqs[j].created /\ reqs'[j].created}}

\* C36: every user has at most one Subscription row, and once the row
\* carries a billing-customer id no step of a checkout request, also of one
\* that runs beside another, gives the row another customer id or creates a
\* further gateway customer for the user.
C36_OneCustomerPerUser ==
  /\ [](\A u \in users : Cardinality(SubscriptionOf(u.id)) <= 1)
  /\ [][\A x \in subscriptions :
          x.stripeCustomerId # "none" =>
            /\ \A y \in subscriptions' :
                 y.userId = x.userId => y.stripeCustomerId = x.stripeCustomerId
            /\ x.userId \notin CustomerCreatedFor]_vars

CheckoutResponses == {x \in responses : x.op = "checkout"}

\* the account of the caller is not of the type the route is for
WrongRole(x) == \E u \in UserById(x.bearer.userId) : u.userType # x.kind

\* the body breaks the rule of its package
RuleBroken(x) ==
  /\ x.kind = "candidate"
  /\ \/ x.body.item = "base" /\ (x.body.domain = "" \/ Len(x.body.subdomains) # 1)
     \/ x.body.item = "subdomain_addon" /\ (x.body.domain = "" \/ Len(x.body.subdomains) < 1)
     \/ x.body.item = "single_domain_bundle" /\ x.body.domain = ""

\* C37: a checkout request of a user of the wrong account type for the
\* route, or with a body that breaks the rule of its package (base: a
\* domain and exactly one subdomain; subdomain_addon: a domain and at least
\* one subdomain; single_domain_bundle: a domain), is refused in the step
\* in which it arrives: it creates no gateway customer and no checkout
\* session, and the step changes no stored row.
C37_CheckoutRefusedBeforeEffects ==
  [][\A x \in {y \in Arriving : y.op = "checkout"} :
       (WrongRole(x) \/ RuleBroken(x)) =>
         /\ x \in responses' /\ x.status \in {400, 403}
         /\ ~x.created /\ ~x.session /\ x.customer = "none"
         /\ UNCHANGED <<storeVars, nextId>>]_vars

\* alice, a candidate, was refused at the vendor route and, with a base
\* package without a domain, at the candidate route; her Subscription row
\* has no customer and no handler created one
C37_Witness ==
  /\ \E x \in CheckoutResponses :
       x.bearer.userId = 1 /\ x.kind = "vendor" /\ x.body = ValidBody("vendor") /\ x.status = 403
  /\ \E x \in CheckoutResponses :
       /\ x.bearer.userId = 1 /\ x.kind = "candidate" /\ x.status = 400
       /\ x.body.item = "base" /\ x.body.domain = ""
  /\ \A x \in CheckoutResponses : ~x.created /\ ~x.session
  /\ \A sub \in SubscriptionOf(1) : sub.stripeCustomerId = "none"

-----------------------------------------------------------------------------
(* The shape of the mapping computeMembershipConfig returns *)

\* C38: every entry of the mapping computeMembershipConfig returns has the
\* key contract or full_time and a subdomain list that is non-empty, has no
\* duplicate and holds only subdomains of that domain's vocabulary.
C38_MappingWellFormed ==
  (aggOut.runs > 0 /\ ~aggOut.threw) =>
    \A k \in 1..Len(aggOut.config) :
      LET entry == aggOut.config[k]
      IN /\ entry.key \in {"contract", "full_time"}
         /\ entry.subs # <<>>
         /\ Cardinality(AsSet(entry.subs)) = Len(entry.subs)
         /\ AsSet(entry.subs) \subseteq Complete(entry.key)

====
